---- MODULE Spec2Model ----
(***************************************************************************)
(* Verification model of the WuKongIM clustered message engine:            *)
(*   - the per-channel staged pipeline (internal/server/channel.go and the *)
(*     reactor lane that drives it),                                       *)
(*   - the replica state machine (pkg/cluster/replica),                    *)
(*   - channel placement / election (pkg/cluster channelGroupManager),     *)
(*   - the cluster configuration manager (pkg/clusterevent),               *)
(*   - the forwarding of proposals to the channel leader (proposeMessages).*)
(* Each subsystem has its own specification (SpecChannel, ...); the        *)
(* variables of the other subsystems stay at their initial values.         *)
(***************************************************************************)
EXTENDS Integers, Sequences, FiniteSets, TLC

(***************************************************************************)
(* Bounds of the model                                                     *)
(***************************************************************************)
\* messages a producer may send to the channel
MaxMsgs == 2
\* disturbances explored in one behaviour: failed completions, and role
\* changes after the first initialisation
MaxDisturb == 1
\* opts.Reactor.Channel.ProcessIntervalTick
ProcessIntervalTick == 1
\* opts.Reactor.Channel.DeadlineTick
DeadlineTick == 2

\* newChannel: retryTickCount
retryTickCount == 20

\* highest term a replica reaches
MaxTerm == 2
\* configurations the cluster issues for the shard
MaxVersion == 3
\* opts.ElectionIntervalTick, opts.HeartbeatIntervalTick, opts.SyncIntervalTick
ElectionIntervalTick == 1
HeartbeatIntervalTick == 1
SyncIntervalTick == 1
\* opts.RequestTimeoutTick
RequestTimeoutTick == 2

\* the nodes that hold a replica of the shard
Nodes == {1, 2}

\* the nodes of the cluster that hold a replica of the channel
ShardNodes == {1, 2, 3}
\* opts.ChannelMaxReplicaCount
ChannelMaxReplicaCount == 3
\* highest term of a channel placement
MaxShardTerm == 2
\* longest replicated log, and the number of proposals
MaxLog == 1
MaxProposals == 2
\* longest log where the indexes of successive proposals are followed
MaxDenseLog == 2
\* nodes going offline and channel objects closed in one behaviour
MaxEvents == 2

\* the nodes of the cluster configuration
CfgNodes == {1, 2}
\* highest version and term of the cluster configuration, and writes to disk
MaxCfgVersion == 3
MaxCfgTerm == 1
MaxWrites == 3

\* payloads proposed on the proxy node, and calls made for one payload
Payloads == {1, 2}
MaxTries == 2

Max(a, b) == IF a >= b THEN a ELSE b
Min(a, b) == IF a <= b THEN a ELSE b

(***************************************************************************)
(* Channel state machine                                                   *)
(***************************************************************************)
VARIABLES
    status,        \* channel.status
    role,          \* channel.role
    leaderId,      \* channel.leaderId
    msgQueue,      \* channel.msgQueue: the cursors of the message queue
    readyState,    \* the six readyState fields of the channel, by stage
    initTick,      \* channel.initTick
    idleTick,      \* channel.idleTick
    actions,       \* channel.actions: actions queued by exec, not yet returned
    inflight,      \* actions handed out and not yet answered by a completion
    resets,        \* number of resetIndex calls so far
    fails,         \* number of failed completions so far
    sendacked,     \* index -> number of successful Sendack completions covering it
    ackDispatched  \* indices that were included in a dispatched Sendack action

chVars == <<status, role, leaderId, msgQueue, readyState, initTick, idleTick,
            actions, inflight, resets, fails, sendacked, ackDispatched>>

VARIABLES
    replica,       \* node -> the Replica of the shard on that node
    net,           \* replica messages handed to the transport, not yet stepped
    configs,       \* the configurations issued for the shard, by version
    rlog           \* node -> the replicaLog of the shard on that node

replicaVars == <<replica, net, configs, rlog>>

VARIABLES
    online,          \* node -> Online flag of the node in the cluster configuration
    placement,       \* the stored ChannelClusterConfig of the channel
    cache,           \* node -> the channel object cached in the node's channel group
    fetch,           \* the last fetch on a slot leader: what it found, stored and returned
    view,            \* node -> role, leader, term and status of the channel's replica
    slog,            \* node -> the stored log of the channel
    committedIndex,  \* node -> replicaLog.committedIndex
    applied,         \* node -> the data applied so far, by index
    lastSyncInfoMap, \* leader -> follower -> LastSyncIndex
    proposed,        \* number of proposals so far
    events           \* number of offline and close events so far

shardVars == <<online, placement, cache, fetch, view, slog, committedIndex, applied,
               lastSyncInfoMap, proposed, events>>

VARIABLES
    clusterconfig,   \* ClusterEventManager.clusterconfig
    persisted        \* the versions written to the configuration file, in order

cfgVars == <<clusterconfig, persisted>>

VARIABLES
    pcall,           \* payload -> the call of proposeMessages for it on the proxy
    reqs,            \* ChannelProposeReq on their way to the leader
    resps,           \* ChannelProposeResp on their way back
    leaderStore,     \* the payloads in the leader's storage of the channel
    placementOld     \* the placement held by the proxy names an old leader

proposeVars == <<pcall, reqs, resps, leaderStore, placementOld>>

VARIABLES
    subscribers,     \* the subscriber list of the channel, as the store returns it
    slotLeader,      \* uid -> the node that leads the slot of the user's channel
    receiverTag      \* the tag built last: the inputs it was built from and its groups

tagVars == <<subscribers, slotLeader, receiverTag>>

VARIABLES
    stopped,         \* channelReactorSub.stopped
    shouldStop,      \* the stopper's ShouldStop channel is closed
    loopExited,      \* the lane's loop has returned
    stepChannelC,    \* channelReactorSub.stepChannelC: the requests queued for the lane
    waitC,           \* caller -> the completion channel of its call holds the step's result
    wpc,             \* caller -> where the caller is in stepWait
    wresult,         \* caller -> what its last stepWait returned
    wcalls           \* caller -> how many calls it has made

reactorVars == <<stopped, shouldStop, loopExited, stepChannelC, waitC, wpc, wresult, wcalls>>

VARIABLES
    singleNode,      \* opts.IsSingleNode()
    channelSlotLeader, \* slot.Leader of the slot that owns the channel
    elected,         \* the last electionIfNeed: who ran it, on what, the answers, the result
    created          \* the last createChannelClusterInfo: its inputs and the replica ids

electVars == <<singleNode, channelSlotLeader, elected, created>>

VARIABLES
    fpc,             \* caller -> where it is in loadOrCreateChannel
    fpath,           \* caller -> the branch of loadOrCreateChannel it took
    fobj,            \* caller -> the channel object it created, None if none
    fret,            \* caller -> the channel object its last call returned, None if none
    fcalls,          \* caller -> how many calls it has started
    channelKeyLock,  \* the caller that holds the key lock of the channel, or None
    groupChannel,    \* the channel object the channel group holds, or None
    groupAdds,       \* the channel objects added to the channel group, in order
    objects,         \* number of channel objects created
    hasLeader,       \* the stored placement of the channel names a leader
    appointments     \* number of elections that appointed a leader

raceVars == <<fpc, fpath, fobj, fret, fcalls, channelKeyLock, groupChannel, groupAdds,
              objects, hasLeader, appointments>>

VARIABLES
    receiverTagKey, \* channel.receiverTagKey: the key stored, 0 for the empty string
    tags,           \* the keys of the receiver tags the tag manager holds
    keys,           \* number of keys GenUUID has made
    mpc,            \* where the goroutine in makeReceiverTag is
    mnew,           \* the key that makeReceiverTag has made and not yet stored
    rpc,            \* where the lane is in the tag block of resetIndex
    tagResets        \* number of resetIndex calls on the channel

keyVars == <<receiverTagKey, tags, keys, mpc, mnew, rpc, tagResets>>

VARIABLES
    electionOn       \* opts.ElectionOn of the replicas

optsVars == <<electionOn>>

\* opts.ElectionOn
ElectionOn == electionOn

VARIABLES
    cfgFile,         \* the cluster configuration file in DataDir: what a read of it yields
    restarts         \* number of restarts of the node

fileVars == <<cfgFile, restarts>>

VARIABLES
    clusterconfigLock, \* ClusterEventManager.clusterconfigLock: the goroutine that holds it, or 0
    othersNodeConfigVersionMapLock, \* the goroutine that holds othersNodeConfigVersionMapLock, or 0
    tpc,             \* goroutine -> the statement of the manager it is at
    targ             \* goroutine -> the arguments of its SetNodeOnline call

lockVars == <<clusterconfigLock, othersNodeConfigVersionMapLock, tpc, targ>>

nonChannelVars == <<replicaVars, shardVars, cfgVars, proposeVars, tagVars, reactorVars, electVars, raceVars, keyVars, optsVars, fileVars, lockVars>>
nonReplicaVars == <<chVars, shardVars, cfgVars, proposeVars, tagVars, reactorVars, electVars, raceVars, keyVars, optsVars, fileVars, lockVars>>
nonShardVars == <<chVars, replicaVars, cfgVars, proposeVars, tagVars, reactorVars, electVars, raceVars, keyVars, optsVars, fileVars, lockVars>>
nonCfgVars == <<chVars, replicaVars, shardVars, proposeVars, tagVars, reactorVars, electVars, raceVars, keyVars, optsVars, fileVars, lockVars>>
nonCfgFileVars == <<chVars, replicaVars, shardVars, proposeVars, tagVars, reactorVars, electVars, raceVars, keyVars, optsVars, lockVars>>
nonCfgLockVars == <<chVars, replicaVars, shardVars, proposeVars, tagVars, reactorVars, electVars, raceVars, keyVars, optsVars>>
nonProposeVars == <<chVars, replicaVars, shardVars, cfgVars, tagVars, reactorVars, electVars, raceVars, keyVars, optsVars, fileVars, lockVars>>
nonTagVars == <<chVars, replicaVars, shardVars, cfgVars, proposeVars, reactorVars, electVars, raceVars, keyVars, optsVars, fileVars, lockVars>>
nonReactorVars == <<chVars, replicaVars, shardVars, cfgVars, proposeVars, tagVars, electVars, raceVars, keyVars, optsVars, fileVars, lockVars>>
nonShardElectVars == <<chVars, replicaVars, cfgVars, proposeVars, tagVars, reactorVars, raceVars, keyVars, optsVars, fileVars, lockVars>>
nonRaceVars == <<chVars, replicaVars, shardVars, cfgVars, proposeVars, tagVars, reactorVars, electVars, keyVars, optsVars, fileVars, lockVars>>
nonKeyVars == <<chVars, replicaVars, shardVars, cfgVars, proposeVars, tagVars, reactorVars, electVars, raceVars, optsVars, fileVars, lockVars>>
nonOptsVars == <<chVars, replicaVars, shardVars, cfgVars, proposeVars, tagVars, reactorVars, electVars, raceVars, keyVars, fileVars, lockVars>>
nonFileVars == <<chVars, replicaVars, shardVars, cfgVars, proposeVars, tagVars, reactorVars, electVars, raceVars, keyVars, optsVars, lockVars>>
nonLockVars == <<chVars, replicaVars, shardVars, cfgVars, proposeVars, tagVars, reactorVars, electVars, raceVars, keyVars, optsVars, fileVars>>

vars == <<chVars, replicaVars, shardVars, cfgVars, proposeVars, tagVars, reactorVars, electVars,
          raceVars,
          keyVars,
          optsVars,
          fileVars,
          lockVars>>

Stages == {"PayloadDecrypt", "PermissionCheck", "Storage", "Sendack", "Deliver", "Forward"}

LeaderNodes == {1, 2}

\* readyState{} zero value
readyStateZero == [processing |-> FALSE, willRetry |-> FALSE, retryTick |-> 0]

\* newChannelMsgQueue: every cursor at zero
newChannelMsgQueue ==
    [lastIndex |-> 0, payloadDecryptingIndex |-> 0, permissionCheckingIndex |-> 0,
     storagingIndex |-> 0, sendackingIndex |-> 0, deliveringIndex |-> 0,
     forwardingIndex |-> 0, offsetIndex |-> 0]

\* newChannel
ChannelInit ==
    /\ status = "Uninitialized"
    /\ role = "Unknown"
    /\ leaderId = 0
    /\ msgQueue = newChannelMsgQueue
    /\ readyState = [s \in Stages |-> readyStateZero]
    /\ initTick = ProcessIntervalTick
    /\ idleTick = 0
    /\ actions = {}
    /\ inflight = {}
    /\ resets = 0
    /\ fails = 0
    /\ sendacked = [i \in 1..MaxMsgs |-> 0]
    /\ ackDispatched = {}

\* failed completions and role changes after the first initialisation, so far
Disturbances == fails + Max(resets - 1, 0)

isInitialized == status = "Initialized"

hasPayloadUnDecrypt ==
    /\ ~readyState["PayloadDecrypt"].processing
    /\ msgQueue.payloadDecryptingIndex < msgQueue.lastIndex

hasPermissionUnCheck ==
    /\ ~readyState["PermissionCheck"].processing
    /\ msgQueue.permissionCheckingIndex < msgQueue.payloadDecryptingIndex

hasUnstorage ==
    /\ ~readyState["Storage"].processing
    /\ msgQueue.storagingIndex < msgQueue.permissionCheckingIndex

hasSendack ==
    /\ ~readyState["Sendack"].processing
    /\ msgQueue.sendackingIndex < msgQueue.storagingIndex

hasUnDeliver ==
    /\ ~readyState["Deliver"].processing
    /\ msgQueue.deliveringIndex < msgQueue.storagingIndex

hasUnforward ==
    /\ ~readyState["Forward"].processing
    /\ msgQueue.forwardingIndex < msgQueue.payloadDecryptingIndex

\* hasReady() without the test of channelStatusInitializing
hasReady_whileInitializing ==
    IF ~isInitialized
    THEN initTick >= ProcessIntervalTick
    ELSE \/ hasPayloadUnDecrypt
         \/ role = "Leader" /\ (hasPermissionUnCheck \/ hasUnstorage \/ hasSendack \/ hasUnDeliver)
         \/ role = "Proxy" /\ hasUnforward
         \/ actions # {}

hasReady ==
    IF ~isInitialized
    THEN IF initTick < ProcessIntervalTick THEN FALSE ELSE status # "Initializing"
    ELSE \/ hasPayloadUnDecrypt
         \/ role = "Leader" /\ (hasPermissionUnCheck \/ hasUnstorage \/ hasSendack \/ hasUnDeliver)
         \/ role = "Proxy" /\ hasUnforward
         \/ actions # {}

(***************************************************************************)
(* channelMsgQueue.sliceWithSize(lo, hi, maxSize): the messages with index *)
(* in [lo, hi), cut at maxSize bytes (maxSize = 0: no cut).  Message sizes *)
(* are not modelled: a cut slice is any non-empty prefix of the range.  A  *)
(* range whose first message was already reaped yields nothing.  A batch   *)
(* is the record of its first and last index; to < from is the empty batch.*)
(***************************************************************************)
EmptyBatch(lo) == [from |-> lo, to |-> lo - 1]

sliceWithSize(lo, hi, maxSize) ==
    IF lo >= hi \/ lo <= msgQueue.offsetIndex
    THEN {EmptyBatch(lo)}
    ELSE IF maxSize = 0
         THEN {[from |-> lo, to |-> hi - 1]}
         ELSE {[from |-> lo, to |-> t] : t \in lo..(hi - 1)}

\* options of newChannel (2 MiB each); only "limited or not" matters to sliceWithSize
storageMaxSize == 2097152
deliverMaxSize == 2097152

\* channelReactorSub.handleReady: the worker queue its switch puts an action
\* of this type in; "none" where the switch has no case for the type
workerQueue(type) ==
    CASE type = "PermissionCheck" -> "permissionReq"
      [] type = "Storage" -> "storageReq"
      [] type = "Deliver" -> "deliverReq"
      [] type = "Sendack" -> "sendackReq"
      [] OTHER -> "none"

\* an action as the lane holds it once ready() has returned it: queue is where
\* handleReady has put it
Action(type, b) == [ActionType |-> type, from |-> b.from, to |-> b.to,
                    LeaderId |-> 0, gen |-> resets, queue |-> workerQueue(type)]
ForwardAction(b) == [ActionType |-> "Forward", from |-> b.from, to |-> b.to,
                     LeaderId |-> leaderId, gen |-> resets, queue |-> workerQueue("Forward")]
PlainAction(type) == [ActionType |-> type, from |-> 1, to |-> 0,
                      LeaderId |-> 0, gen |-> 0, queue |-> workerQueue(type)]

Emit(cond, type, b) == IF cond /\ b.to >= b.from THEN {Action(type, b)} ELSE {}

\* the slices ready() takes for each stage
decryptSlice == sliceWithSize(msgQueue.payloadDecryptingIndex + 1, msgQueue.lastIndex + 1, 2097152)
permissionSlice == sliceWithSize(msgQueue.permissionCheckingIndex + 1, msgQueue.payloadDecryptingIndex + 1, 0)
storageSlice_upToDecrypted == sliceWithSize(msgQueue.storagingIndex + 1, msgQueue.payloadDecryptingIndex + 1, storageMaxSize)
storageSlice == sliceWithSize(msgQueue.storagingIndex + 1, msgQueue.permissionCheckingIndex + 1, storageMaxSize)
sendackSlice_upToChecked == sliceWithSize(msgQueue.sendackingIndex + 1, msgQueue.permissionCheckingIndex + 1, 0)
sendackSlice == sliceWithSize(msgQueue.sendackingIndex + 1, msgQueue.storagingIndex + 1, 0)
deliverSlice_skipOne == sliceWithSize(msgQueue.deliveringIndex + 2, msgQueue.storagingIndex + 1, deliverMaxSize)
deliverSlice == sliceWithSize(msgQueue.deliveringIndex + 1, msgQueue.storagingIndex + 1, deliverMaxSize)
forwardSlice == sliceWithSize(msgQueue.forwardingIndex + 1, msgQueue.payloadDecryptingIndex + 1, deliverMaxSize)

\* ready() with the permission check not restricted to the leader role
readyStages_anyRole ==
    {s \in Stages :
        \/ s = "PayloadDecrypt" /\ hasPayloadUnDecrypt
        \/ s = "PermissionCheck" /\ hasPermissionUnCheck
        \/ s = "Storage" /\ role = "Leader" /\ hasUnstorage
        \/ s = "Sendack" /\ role = "Leader" /\ hasSendack
        \/ s = "Deliver" /\ role = "Leader" /\ hasUnDeliver
        \/ s = "Forward" /\ role = "Proxy" /\ hasUnforward}

\* the stages ready() marks as processing in one call
readyStages ==
    {s \in Stages :
        \/ s = "PayloadDecrypt" /\ hasPayloadUnDecrypt
        \/ s = "PermissionCheck" /\ role = "Leader" /\ hasPermissionUnCheck
        \/ s = "Storage" /\ role = "Leader" /\ hasUnstorage
        \/ s = "Sendack" /\ role = "Leader" /\ hasSendack
        \/ s = "Deliver" /\ role = "Leader" /\ hasUnDeliver
        \/ s = "Forward" /\ role = "Proxy" /\ hasUnforward}

\* channel.ready() on an initialized channel, with the slices chosen
readyInitialized(bD, bS, bV, bF) ==
    LET emitted ==
            Emit("PayloadDecrypt" \in readyStages, "PayloadDecrypt", bD)
            \cup Emit("PermissionCheck" \in readyStages, "PermissionCheck",
                      CHOOSE b \in permissionSlice : TRUE)
            \cup Emit("Storage" \in readyStages, "Storage", bS)
            \cup Emit("Sendack" \in readyStages, "Sendack", CHOOSE b \in sendackSlice : TRUE)
            \cup Emit("Deliver" \in readyStages, "Deliver", bV)
            \cup (IF "Forward" \in readyStages /\ bF.to >= bF.from
                  THEN {ForwardAction(bF)} ELSE {})
    IN  /\ readyState' = [s \in Stages |->
                            IF s \in readyStages
                            THEN [readyState[s] EXCEPT !.processing = TRUE]
                            ELSE readyState[s]]
        /\ inflight' = inflight \cup emitted \cup actions
        /\ actions' = {}
        /\ UNCHANGED <<status, initTick>>

\* channel.ready() on a channel that is not initialized
readyUninitialized ==
    IF status = "Initializing"
    THEN UNCHANGED <<status, initTick, actions, readyState, inflight>>
    ELSE /\ status' = "Initializing"
         /\ initTick' = 0
         /\ inflight' = inflight \cup actions \cup {PlainAction("Init")}
         /\ actions' = {}
         /\ UNCHANGED readyState

(***************************************************************************)
(* channelReactorSub.readys / handleReady: a channel with hasReady() gets  *)
(* ready() called; what it returns is handed out and awaits a completion.  *)
(***************************************************************************)
HandleReady ==
    /\ hasReady
    /\ IF isInitialized
       THEN \E bD \in decryptSlice, bS \in storageSlice, bV \in deliverSlice, bF \in forwardSlice :
                readyInitialized(bD, bS, bV, bF)
       ELSE readyUninitialized
    /\ ackDispatched' = ackDispatched \cup
            UNION {a.from..a.to : a \in {x \in inflight' \ inflight : x.ActionType = "Sendack"}}
    /\ UNCHANGED <<role, leaderId, msgQueue, idleTick, resets, fails, sendacked>>
    /\ UNCHANGED nonChannelVars

(***************************************************************************)
(* channel.tick                                                            *)
(***************************************************************************)
tickRetry(st) ==
    IF st.willRetry
    THEN IF st.retryTick + 1 >= retryTickCount
         THEN [st EXCEPT !.willRetry = FALSE, !.retryTick = 0]
         ELSE [st EXCEPT !.retryTick = st.retryTick + 1]
    ELSE st

Tick_closeLate ==
    /\ initTick' = Min(initTick + 1, ProcessIntervalTick)
    /\ IF idleTick + 1 > DeadlineTick
       THEN /\ idleTick' = 0
            /\ actions' = actions \cup {PlainAction("Close")}
       ELSE /\ idleTick' = idleTick + 1
            /\ UNCHANGED actions
    /\ readyState' = [s \in Stages |-> tickRetry(readyState[s])]
    /\ UNCHANGED <<status, role, leaderId, msgQueue, inflight, resets, fails,
                   sendacked, ackDispatched>>
    /\ UNCHANGED nonChannelVars

\* initTick is only ever compared with ProcessIntervalTick: it saturates there
Tick ==
    /\ initTick' = Min(initTick + 1, ProcessIntervalTick)
    /\ IF idleTick + 1 >= DeadlineTick
       THEN /\ idleTick' = 0
            /\ actions' = actions \cup {PlainAction("Close")}
       ELSE /\ idleTick' = idleTick + 1
            /\ UNCHANGED actions
    /\ readyState' = [s \in Stages |-> tickRetry(readyState[s])]
    /\ UNCHANGED <<status, role, leaderId, msgQueue, inflight, resets, fails,
                   sendacked, ackDispatched>>
    /\ UNCHANGED nonChannelVars

(***************************************************************************)
(* channel.resetIndex, becomeLeader, becomeProxy                           *)
(***************************************************************************)
\* channelMsgQueue.resetIndex: cursors never move backwards, the messages stay
msgQueueResetIndex(q) == q

resetIndex ==
    /\ msgQueue' = msgQueueResetIndex(msgQueue)
    /\ readyState' = [s \in Stages |-> readyStateZero]
    /\ idleTick' = 0
    /\ initTick' = 0

becomeLeader ==
    /\ resetIndex
    /\ leaderId' = 0
    /\ role' = "Leader"

becomeProxy(l) ==
    /\ resetIndex
    /\ role' = "Proxy"
    /\ leaderId' = l

(***************************************************************************)
(* channel.step, driven by the lane's loop: a producer's send, and the     *)
(* completions of the actions handed out.                                  *)
(***************************************************************************)
\* proposeSend -> step(ChannelActionSend): the message is appended to the queue
Send ==
    /\ msgQueue.lastIndex < MaxMsgs
    /\ msgQueue' = [msgQueue EXCEPT !.lastIndex = @ + 1]
    /\ idleTick' = 0
    /\ UNCHANGED <<status, role, leaderId, readyState, initTick, actions, inflight,
                   resets, fails, sendacked, ackDispatched>>
    /\ UNCHANGED nonChannelVars

\* completion of Init: the channel becomes leader or proxy and is initialized
StepInitResp ==
    \E a \in inflight :
        /\ a.ActionType = "Init"
        /\ resets = 0 \/ Disturbances < MaxDisturb
        /\ inflight' = inflight \ {a}
        /\ status' = "Initialized"
        /\ \/ becomeLeader
           \/ \E l \in LeaderNodes : becomeProxy(l)
        /\ resets' = resets + 1
        /\ UNCHANGED <<actions, fails, sendacked, ackDispatched>>
        /\ UNCHANGED nonChannelVars

\* a failed Init leaves the channel uninitialized; ready() asks again later
StepInitFail ==
    \E a \in inflight :
        /\ a.ActionType = "Init"
        /\ Disturbances < MaxDisturb
        /\ inflight' = inflight \ {a}
        /\ status' = "Uninitialized"
        /\ fails' = fails + 1
        /\ UNCHANGED <<role, leaderId, msgQueue, readyState, initTick, idleTick, actions,
                       resets, sendacked, ackDispatched>>
        /\ UNCHANGED nonChannelVars

\* the placement names another leader: the role of the channel changes
LeaderChange ==
    /\ isInitialized
    /\ Disturbances < MaxDisturb
    /\ \/ becomeLeader
       \/ \E l \in LeaderNodes : becomeProxy(l)
    /\ resets' = resets + 1
    /\ UNCHANGED <<status, actions, inflight, fails, sendacked, ackDispatched>>
    /\ UNCHANGED nonChannelVars

cursorOf(s) ==
    CASE s = "PayloadDecrypt" -> "payloadDecryptingIndex"
      [] s = "PermissionCheck" -> "permissionCheckingIndex"
      [] s = "Storage" -> "storagingIndex"
      [] s = "Sendack" -> "sendackingIndex"
      [] s = "Deliver" -> "deliveringIndex"
      [] s = "Forward" -> "forwardingIndex"

\* the successful completion of a stage action advances the stage's cursor to the
\* last message of the batch and clears processing; after a delivery the
\* messages up to deliveringIndex may be reaped
StepResp ==
    \E a \in inflight :
        /\ a.ActionType \in Stages
        /\ inflight' = inflight \ {a}
        /\ readyState' = [readyState EXCEPT ![a.ActionType] =
                             [processing |-> FALSE, willRetry |-> FALSE, retryTick |-> 0]]
        /\ LET q == [msgQueue EXCEPT ![cursorOf(a.ActionType)] = Max(@, a.to)]
           IN  IF a.ActionType = "Deliver"
               THEN \E reap \in BOOLEAN :
                        msgQueue' = IF reap THEN [q EXCEPT !.offsetIndex = q.deliveringIndex]
                                    ELSE q
               ELSE msgQueue' = q
        /\ sendacked' = IF a.ActionType = "Sendack"
                        THEN [i \in 1..MaxMsgs |->
                                IF i \in a.from..a.to THEN Min(sendacked[i] + 1, 2)
                                ELSE sendacked[i]]
                        ELSE sendacked
        /\ idleTick' = 0
        /\ UNCHANGED <<status, role, leaderId, initTick, actions, resets, fails, ackDispatched>>
        /\ UNCHANGED nonChannelVars

\* a failed completion: processing is cleared, the cursor stays, the stage will retry
StepRespFail ==
    \E a \in inflight :
        /\ a.ActionType \in Stages
        /\ Disturbances < MaxDisturb
        /\ inflight' = inflight \ {a}
        /\ readyState' = [readyState EXCEPT ![a.ActionType] =
                             [processing |-> FALSE, willRetry |-> TRUE, retryTick |-> 0]]
        /\ fails' = fails + 1
        /\ idleTick' = 0
        /\ UNCHANGED <<status, role, leaderId, msgQueue, initTick, actions, resets,
                       sendacked, ackDispatched>>
        /\ UNCHANGED nonChannelVars

\* ChannelActionClose: the channel returns to uninitialized
StepClose ==
    \E a \in inflight :
        /\ a.ActionType = "Close"
        /\ inflight' = inflight \ {a}
        /\ status' = "Uninitialized"
        /\ UNCHANGED <<role, leaderId, msgQueue, readyState, initTick, idleTick, actions,
                       resets, fails, sendacked, ackDispatched>>
        /\ UNCHANGED nonChannelVars

ChannelNext ==
    \/ HandleReady
    \/ Tick
    \/ Send
    \/ StepInitResp
    \/ StepInitFail
    \/ LeaderChange
    \/ StepResp
    \/ StepRespFail
    \/ StepClose


(***************************************************************************)
(* Properties of the channel pipeline                                      *)
(***************************************************************************)
\* nothing handed out, nothing queued, and ready() has nothing to do
Quiescent == inflight = {} /\ actions = {} /\ ~hasReady

\* the stage actions handed out by the step being taken
dispatched(t) == {a \in inflight' \ inflight : a.ActionType = t}

\* C1, as stated: in every reachable state the six cursors are ordered
\* deliveringIndex <= sendackingIndex <= storagingIndex <=
\* permissionCheckingIndex <= payloadDecryptingIndex <= lastIndex.
C1_CursorChainAsStated ==
    /\ msgQueue.deliveringIndex <= msgQueue.sendackingIndex
    /\ msgQueue.sendackingIndex <= msgQueue.storagingIndex
    /\ msgQueue.storagingIndex <= msgQueue.permissionCheckingIndex
    /\ msgQueue.permissionCheckingIndex <= msgQueue.payloadDecryptingIndex
    /\ msgQueue.payloadDecryptingIndex <= msgQueue.lastIndex

\* C1, amended: Sendack and Deliver both drain behind storagingIndex and are
\* not ordered against each other; in every reachable state
\* sendackingIndex <= storagingIndex, deliveringIndex <= storagingIndex, and
\* storagingIndex <= permissionCheckingIndex <= payloadDecryptingIndex <= lastIndex.
C1_CursorOrder ==
    /\ msgQueue.deliveringIndex <= msgQueue.storagingIndex
    /\ msgQueue.sendackingIndex <= msgQueue.storagingIndex
    /\ msgQueue.storagingIndex <= msgQueue.permissionCheckingIndex
    /\ msgQueue.permissionCheckingIndex <= msgQueue.payloadDecryptingIndex
    /\ msgQueue.payloadDecryptingIndex <= msgQueue.lastIndex

\* every message went through the leader's stages and the delivery finished
\* ahead of the producer ack
C1_Witness ==
    /\ msgQueue.lastIndex = MaxMsgs
    /\ msgQueue.deliveringIndex = MaxMsgs
    /\ msgQueue.sendackingIndex < msgQueue.deliveringIndex

\* C2: a Sendack or Deliver action handed out only holds messages whose index
\* storagingIndex has reached: nothing is acked or delivered before it is stored.
C2_StoredBeforeAckAndDeliver ==
    /\ \A a \in inflight :
          a.ActionType \in {"Sendack", "Deliver"} =>
              a.from >= 1 /\ a.to <= msgQueue.storagingIndex
    /\ \A i \in ackDispatched : i <= msgQueue.storagingIndex

\* the ack and the delivery of the last message are both handed out
C2_Witness ==
    /\ \E a \in inflight : a.ActionType = "Sendack" /\ a.to = MaxMsgs
    /\ \E a \in inflight : a.ActionType = "Deliver" /\ a.to = MaxMsgs

C4_StoredIsAcked ==
    (Quiescent /\ isInitialized /\ role = "Leader") =>
        \A i \in 1..msgQueue.storagingIndex : i \in ackDispatched

\* C5: no message index is covered by two completed Sendack actions, and once
\* the leader has nothing left to do every message of the queue is covered by one.
C5_ExactlyOneAck ==
    /\ \A i \in 1..MaxMsgs : sendacked[i] <= 1
    /\ (Quiescent /\ isInitialized /\ role = "Leader") =>
           \A i \in 1..msgQueue.lastIndex : sendacked[i] = 1

\* the upstream cursor of a stage: the cursor its own cursor runs behind
upstreamOf(s) ==
    CASE s = "PayloadDecrypt" -> "lastIndex"
      [] s = "PermissionCheck" -> "payloadDecryptingIndex"
      [] s = "Storage" -> "permissionCheckingIndex"
      [] s = "Sendack" -> "storagingIndex"
      [] s = "Deliver" -> "storagingIndex"
      [] s = "Forward" -> "payloadDecryptingIndex"

\* C25: ready() dispatches an action for a stage only when the stage's
\* processing flag is false and its cursor lags its upstream cursor, and it
\* sets the flag when dispatching; so at most one action per stage is in
\* flight at any time, also across role changes that reset the flags
C25_OneActionPerStage ==
    /\ [][\A s \in Stages :
             dispatched(s) # {} =>
                 /\ ~readyState[s].processing
                 /\ msgQueue[cursorOf(s)] < msgQueue[upstreamOf(s)]
                 /\ readyState'[s].processing]_vars
    /\ [](\A s \in Stages : Cardinality({a \in inflight : a.ActionType = s}) <= 1)

\* C26: whenever ready() sets a stage's processing flag it emits an action
\* for that stage in the same call, so no reachable state has a stage with
\* processing set and no action of that stage in flight
C26_ProcessingHasAction ==
    /\ [][\A s \in Stages :
             (~readyState[s].processing /\ readyState'[s].processing) =>
                 \E a \in inflight' :
                     a.ActionType = s /\ a.gen = resets /\ a.from = msgQueue[cursorOf(s)] + 1]_vars
    /\ [](\A s \in Stages :
             readyState[s].processing => \E a \in inflight : a.ActionType = s)

\* C27: after a stage action fails the stage is not dispatched again until
\* retryTickCount ticks have passed: the failure sets willRetry with retryTick
\* 0, a tick adds one to retryTick while willRetry is set and clears both when
\* retryTick reaches retryTickCount, and no stage is dispatched while its
\* willRetry is set
C27_RetryBackoff ==
    [][/\ \A s \in Stages :
            (fails' > fails /\ \E a \in inflight \ inflight' : a.ActionType = s) =>
                (readyState'[s].willRetry /\ readyState'[s].retryTick = 0)
       /\ Tick => \A s \in Stages :
            readyState'[s] =
                IF ~readyState[s].willRetry THEN readyState[s]
                ELSE IF readyState[s].retryTick + 1 >= retryTickCount
                     THEN [readyState[s] EXCEPT !.willRetry = FALSE, !.retryTick = 0]
                     ELSE [readyState[s] EXCEPT !.retryTick = @ + 1]
       /\ \A s \in Stages : dispatched(s) # {} => ~readyState[s].willRetry]_vars

\* the stage actions one ready() call hands out
stageActionsEmitted == {a \in inflight' \ inflight : a.ActionType \in Stages}

forwardAsSpecified(a) ==
    /\ a.ActionType = "Forward"
    /\ a.from = msgQueue.forwardingIndex + 1
    /\ a.to <= msgQueue.payloadDecryptingIndex
    /\ a.LeaderId = leaderId

\* C28 (as stated): the only stage actions ready() emits for a proxy channel
\* are Forward actions that start at forwardingIndex+1, end no later than
\* payloadDecryptingIndex and carry the channel's leaderId
C28_ProxyOnlyForward ==
    [][role = "Proxy" => \A a \in stageActionsEmitted : forwardAsSpecified(a)]_vars

\* C28 (amended): for a proxy channel ready() emits PayloadDecrypt actions for
\* payloadDecryptingIndex+1..lastIndex and Forward actions that start at
\* forwardingIndex+1, end no later than payloadDecryptingIndex and carry the
\* channel's leaderId; it never emits PermissionCheck, Storage, Sendack or
\* Deliver
C28_ProxyDecryptsAndForwards ==
    [][role = "Proxy" => \A a \in stageActionsEmitted :
            \/ forwardAsSpecified(a)
            \/ /\ a.ActionType = "PayloadDecrypt"
               /\ a.from = msgQueue.payloadDecryptingIndex + 1
               /\ a.to <= msgQueue.lastIndex]_vars

C28_Witness ==
    /\ role = "Proxy"
    /\ leaderId # 0
    /\ \E a \in inflight : a.ActionType = "Forward" /\ a.gen = resets /\ a.LeaderId = leaderId
    /\ \E a \in inflight : a.ActionType = "PayloadDecrypt" /\ a.gen = resets

\* what C29 says of hasReady() and of the ready() call of a channel that is
\* not initialized: hasReady() is true only if initTick >= ProcessIntervalTick
\* and the status is not Initializing; ready() then emits exactly one Init,
\* sets status to Initializing and resets initTick; it emits no stage action
uninitializedReady ==
    /\ [](~isInitialized /\ hasReady =>
            initTick >= ProcessIntervalTick /\ status # "Initializing")
    /\ [][(HandleReady /\ ~isInitialized) =>
            /\ inflight' = inflight \cup actions \cup {PlainAction("Init")}
            /\ status' = "Initializing"
            /\ initTick' = 0]_vars
    /\ [][~isInitialized => stageActionsEmitted = {}]_vars

C30_EveryActionQueued == \A a \in inflight : a.queue # "none"

None == 0

Roles == {"Unknown", "Leader", "Follower", "Candidate", "Learner"}

\* replica.New: the Replica of node n after construction
NewReplica(n) ==
    [nodeId |-> n, role |-> "Unknown", status |-> "Uninitialized", term |-> 0,
     leader |-> None, voteFor |-> None, votes |-> {}, rejects |-> {},
     cfg |-> [Version |-> 0, Term |-> 0, Leader |-> None, Replicas |-> {}, Learners |-> {}],
     replicas |-> {}, lastSyncInfoMap |-> [m \in Nodes |-> 0],
     electionElapsed |-> 0, heartbeatElapsed |-> 0, randomizedElectionTimeout |-> 0,
     tickFnc |-> "nil", msgs |-> {}, syncTick |-> 0, syncing |-> FALSE,
     logConflictCheckTick |-> RequestTimeoutTick,
     storaging |-> FALSE, applying |-> FALSE, panicked |-> FALSE]

\* a replica Message; of a vote request, Index and LogTerm are the sender's last
\* log index and the term of that entry
Message(type, from, to, term, reject) ==
    [MsgType |-> type, From |-> from, To |-> to, Term |-> term, Reject |-> reject,
     Index |-> 0, LogTerm |-> 0]

\* newReplicaLog: an empty log
newReplicaLog == [log |-> <<>>, committedIndex |-> 0, appliedIndex |-> 0]

\* replicaLog.lastLogIndex and replicaLog.lastIndexAndTerm of node n
lastLogIndex(n) == Len(rlog[n].log)
lastLogTerm(n) == IF Len(rlog[n].log) = 0 THEN 0 ELSE rlog[n].log[Len(rlog[n].log)].Term

\* Replica.newMsgVoteReq
newMsgVoteReq(r, to) ==
    [Message("VoteReq", r.nodeId, to, r.term, FALSE) EXCEPT
        !.Index = lastLogIndex(r.nodeId), !.LogTerm = lastLogTerm(r.nodeId)]

\* Replica.send
send(r, m) == [r EXCEPT !.msgs = @ \cup {m}]

\* resetRandomizedElectionTimeout: ElectionIntervalTick + Intn(ElectionIntervalTick)
RandomizedTimeouts == ElectionIntervalTick..(2 * ElectionIntervalTick - 1)

\* Replica.reset; rt is the randomized election timeout drawn
replica_reset(r, term, rt) ==
    [r EXCEPT !.term = term, !.voteFor = None, !.votes = {}, !.rejects = {},
              !.msgs = {}, !.leader = None, !.electionElapsed = 0,
              !.heartbeatElapsed = 0, !.randomizedElectionTimeout = rt,
              !.storaging = FALSE, !.applying = FALSE]

replica_isLeader(r) == r.role = "Leader"

\* Replica.initLeaderInfo
initLeaderInfo(r) ==
    [r EXCEPT !.replicas = r.cfg.Replicas \ {r.nodeId},
              !.lastSyncInfoMap = [m \in Nodes |-> 0]]

\* Replica.becomeLeader
replica_becomeLeader(r, term, rt) ==
    initLeaderInfo([replica_reset(r, term, rt) EXCEPT
                        !.tickFnc = "tickHeartbeat", !.term = term,
                        !.leader = r.nodeId, !.role = "Leader"])

\* Replica.becomeFollower; logIndex is replicaLog.lastLogIndex
replica_becomeFollower(r, term, leaderID, rt, logIndex) ==
    LET f == [replica_reset(r, term, rt) EXCEPT
                  !.tickFnc = "tickElection", !.term = term,
                  !.leader = leaderID, !.role = "Follower"]
    IN  IF logIndex > 0 /\ leaderID # None
        THEN [f EXCEPT !.status = "LogConflictCheck"]
        ELSE f

\* Replica.becomeLearner
replica_becomeLearner(r, term, leaderID, rt, logIndex) ==
    LET f == [replica_reset(r, term, rt) EXCEPT
                  !.tickFnc = "nil", !.term = term,
                  !.leader = leaderID, !.role = "Learner"]
    IN  IF logIndex > 0 /\ leaderID # None
        THEN [f EXCEPT !.status = "LogConflictCheck"]
        ELSE f

\* Replica.becomeCandidateWithTerm: a leader that is made candidate panics
becomeCandidateWithTerm(r, term, rt) ==
    IF r.role = "Leader"
    THEN [r EXCEPT !.panicked = TRUE]
    ELSE [replica_reset(r, term, rt) EXCEPT
              !.tickFnc = "tickElection", !.voteFor = r.nodeId,
              !.leader = None, !.role = "Candidate"]

\* Replica.becomeCandidate
becomeCandidate(r, rt) == becomeCandidateWithTerm(r, r.term + 1, rt)

\* Replica.campaign: a vote for itself, and a vote request to every other replica
campaign(r, rt) ==
    LET c == becomeCandidate(r, rt)
    IN  IF c.panicked THEN c
        ELSE [c EXCEPT !.msgs = @ \cup
                {IF n = r.nodeId
                 THEN Message("VoteResp", n, n, c.term, FALSE)
                 ELSE newMsgVoteReq(c, n) : n \in r.cfg.Replicas}]

replica_isSingleNode(r) == r.replicas = {}

\* a host that hands the role Candidate with a configuration without a leader
configRole_candidate(cfg, n) ==
    IF cfg.Leader = None THEN "Candidate"
    ELSE IF cfg.Leader = n THEN "Leader" ELSE "Follower"

\* the role a configuration gives to node n: leader, follower of the leader, or
\* none when the configuration names no leader
configRole(cfg, n) ==
    IF cfg.Leader = None THEN "Unknown"
    ELSE IF cfg.Leader = n THEN "Leader" ELSE "Follower"

\* Replica.switchConfig: the term the replica takes, its own (1 when it has
\* none) or the configuration's when that is higher
switchTerm_configTerm(r, cfg) == IF cfg.Term = 0 THEN 1 ELSE cfg.Term
switchTerm(r, cfg) ==
    LET t0 == IF r.term = 0 THEN 1 ELSE r.term
    IN  IF cfg.Term > t0 THEN cfg.Term ELSE t0

\* Replica.switchConfig
switchConfig(r, cfg, rt, logIndex) ==
    IF r.cfg.Version > cfg.Version THEN r
    ELSE
    LET r0 == [r EXCEPT !.cfg = cfg]
        term == switchTerm(r, cfg)
        cfgRole == configRole(cfg, r.nodeId)
        r1 == IF r.nodeId \in cfg.Learners
              THEN IF r.role # "Learner" \/ term > r.term
                      \/ (cfg.Leader # None /\ r.leader # cfg.Leader)
                   THEN replica_becomeLearner(r0, term, cfg.Leader, rt, logIndex)
                   ELSE r0
              ELSE CASE cfgRole = "Leader" ->
                            IF r.role # "Leader" \/ term > r.term
                            THEN replica_becomeLeader(r0, term, rt) ELSE r0
                     [] cfgRole = "Follower" ->
                            IF r.role # "Follower" \/ term > r.term
                               \/ (cfg.Leader # None /\ r.leader # cfg.Leader)
                            THEN replica_becomeFollower(r0, term, cfg.Leader, rt, logIndex)
                            ELSE r0
                     [] cfgRole = "Candidate" ->
                            IF r.role # "Candidate" \/ term > r.term
                            THEN becomeCandidateWithTerm(r0, term, rt) ELSE r0
                     [] OTHER ->
                            IF r.role = "Learner"
                            THEN replica_becomeFollower(r0, term,
                                     IF cfg.Leader = None THEN r.leader ELSE cfg.Leader,
                                     rt, logIndex)
                            ELSE r0
        r2 == initLeaderInfo(r1)
    IN  IF ElectionOn
        THEN IF replica_isSingleNode(r2)
             THEN IF r2.role = "Unknown" THEN replica_becomeLeader(r2, term, rt) ELSE r2
             ELSE IF r2.role = "Unknown" THEN becomeCandidateWithTerm(r2, term + 1, rt) ELSE r2
        ELSE r2

\* Replica.pastElectionTimeout
pastElectionTimeout(r) == r.electionElapsed >= r.randomizedElectionTimeout

\* Step(MsgHup): a replica that is not the leader starts a campaign
stepHup(r, rt) == IF replica_isLeader(r) THEN r ELSE campaign(r, rt)

\* tickElection without the test of opts.ElectionOn
tickElection_electionOff(r, rt) ==
    LET e == [r EXCEPT !.electionElapsed = @ + 1]
    IN  IF pastElectionTimeout(e)
        THEN stepHup([e EXCEPT !.electionElapsed = 0], rt)
        ELSE e

\* Replica.tickElection
tickElection(r, rt) ==
    IF ~ElectionOn THEN r
    ELSE LET e == [r EXCEPT !.electionElapsed = @ + 1]
         IN  IF pastElectionTimeout(e)
             THEN stepHup([e EXCEPT !.electionElapsed = 0], rt)
             ELSE e

\* Replica.sendPing(All)
sendPing(r) ==
    IF ~replica_isLeader(r) THEN r
    ELSE [r EXCEPT !.msgs = @ \cup
            {Message("Ping", r.nodeId, n, r.term, FALSE) :
                n \in (r.replicas \cup r.cfg.Learners) \ {r.nodeId}}]

\* Replica.tickHeartbeat (role transitions of learners are not modelled);
\* Step(MsgBeat) pings every replica
tickHeartbeat(r) ==
    IF ~replica_isLeader(r) THEN r
    ELSE IF ElectionOn
         THEN LET e == [r EXCEPT !.heartbeatElapsed = @ + 1,
                                 !.electionElapsed =
                                     IF @ + 1 >= ElectionIntervalTick THEN 0 ELSE @ + 1]
              IN  IF e.heartbeatElapsed >= HeartbeatIntervalTick
                  THEN sendPing([e EXCEPT !.heartbeatElapsed = 0])
                  ELSE e
         ELSE sendPing(r)

\* Replica.Tick where the sync timeout leaves syncing as it is
replica_Tick_keepsSyncing(r, rt) ==
    LET s == IF r.role \in {"Follower", "Learner"} /\ r.status = "Ready"
             THEN IF r.syncTick + 1 > SyncIntervalTick * 5
                  THEN [r EXCEPT !.syncTick = 0,
                                 !.msgs = @ \cup {Message("SyncTimeout", r.nodeId, r.nodeId, 0, FALSE)}]
                  ELSE [r EXCEPT !.syncTick = @ + 1]
             ELSE IF r.role \in {"Follower", "Learner"} /\ r.status = "LogConflictCheck"
                  THEN [r EXCEPT !.logConflictCheckTick = Min(@ + 1, RequestTimeoutTick)]
                  ELSE r
    IN  CASE s.tickFnc = "tickElection" -> tickElection(s, rt)
          [] s.tickFnc = "tickHeartbeat" -> tickHeartbeat(s)
          [] OTHER -> s

\* Replica.Tick; logConflictCheckTick is only ever compared with
\* RequestTimeoutTick: it saturates there
replica_Tick(r, rt) ==
    LET s == IF r.role \in {"Follower", "Learner"} /\ r.status = "Ready"
             THEN IF r.syncTick + 1 > SyncIntervalTick * 5
                  THEN [r EXCEPT !.syncTick = 0, !.syncing = FALSE,
                                 !.msgs = @ \cup {Message("SyncTimeout", r.nodeId, r.nodeId, 0, FALSE)}]
                  ELSE [r EXCEPT !.syncTick = @ + 1]
             ELSE IF r.role \in {"Follower", "Learner"} /\ r.status = "LogConflictCheck"
                  THEN [r EXCEPT !.logConflictCheckTick = Min(@ + 1, RequestTimeoutTick)]
                  ELSE r
    IN  CASE s.tickFnc = "tickElection" -> tickElection(s, rt)
          [] s.tickFnc = "tickHeartbeat" -> tickHeartbeat(s)
          [] OTHER -> s

\* Replica.newMsgLogConflictCheck
newMsgLogConflictCheck(r) == Message("LogConflictCheck", r.nodeId, r.nodeId, 0, FALSE)

\* Replica.newSyncMsg: a request for the entries from lastLogIndex+1 on
newSyncMsg(r) ==
    [Message("SyncReq", r.nodeId, r.leader, r.term, FALSE) EXCEPT
        !.Index = lastLogIndex(r.nodeId) + 1]

\* Replica.Ready without the branch of the log conflict check
replica_Ready_noConflictCheck(r) ==
    IF r.status = "Uninitialized"
    THEN [after |-> [r EXCEPT !.status = "Initing", !.msgs = {}],
          out |-> r.msgs \cup {Message("Init", r.nodeId, r.nodeId, 0, FALSE)}]
    ELSE LET s == IF r.role \in {"Follower", "Learner"} /\ r.leader # None
                     /\ r.syncTick >= SyncIntervalTick /\ ~r.syncing
                  THEN [r EXCEPT !.syncTick = 0, !.syncing = TRUE,
                                 !.msgs = @ \cup {newSyncMsg(r)}]
                  ELSE r
         IN  [after |-> [s EXCEPT !.msgs = {}], out |-> s.msgs]

\* Replica.HasReady, without the log and the hard state
replica_HasReady(r) ==
    IF r.status # "Ready"
    THEN \/ r.status = "Uninitialized"
         \/ /\ r.status = "LogConflictCheck" /\ r.role \in {"Follower", "Learner"}
            /\ r.leader # None /\ r.logConflictCheckTick >= RequestTimeoutTick
    ELSE \/ r.role \in {"Follower", "Learner"} /\ r.leader # None
            /\ r.syncTick >= SyncIntervalTick /\ ~r.syncing
         \/ r.msgs # {}

\* Replica.Ready, without the log and the hard state: the replica after the
\* call, and the messages handed out
replica_Ready(r) ==
    IF r.status = "Uninitialized"
    THEN [after |-> [r EXCEPT !.status = "Initing", !.msgs = {}],
          out |-> r.msgs \cup {Message("Init", r.nodeId, r.nodeId, 0, FALSE)}]
    ELSE IF r.status = "LogConflictCheck" /\ r.role \in {"Follower", "Learner"}
    THEN IF r.leader # None /\ r.logConflictCheckTick >= RequestTimeoutTick
         THEN [after |-> [r EXCEPT !.logConflictCheckTick = 0, !.msgs = {}],
               out |-> r.msgs \cup {newMsgLogConflictCheck(r)}]
         ELSE [after |-> r, out |-> {}]
    ELSE LET s == IF r.role \in {"Follower", "Learner"} /\ r.leader # None
                     /\ r.syncTick >= SyncIntervalTick /\ ~r.syncing
                  THEN [r EXCEPT !.syncTick = 0, !.syncing = TRUE,
                                 !.msgs = @ \cup {newSyncMsg(r)}]
                  ELSE r
         IN  [after |-> [s EXCEPT !.msgs = {}], out |-> s.msgs]

\* votes needed to win: a majority of the configured replicas
voteQuorum(r) == (Cardinality(r.cfg.Replicas) \div 2) + 1

\* Step(MsgVoteReq): a request of an older term is rejected; a newer term makes
\* the replica a follower of that term; the vote is granted when the replica
\* has not voted for another candidate in this term
stepVoteReq(r, m, rt) ==
    IF m.Term < r.term
    THEN send(r, Message("VoteResp", r.nodeId, m.From, r.term, TRUE))
    ELSE LET f == IF m.Term > r.term
                  THEN replica_becomeFollower(r, m.Term, None, rt, 0)
                  ELSE r
         IN  IF f.voteFor = None \/ f.voteFor = m.From
             THEN send([f EXCEPT !.voteFor = m.From, !.electionElapsed = 0],
                       Message("VoteResp", r.nodeId, m.From, m.Term, FALSE))
             ELSE send(f, Message("VoteResp", r.nodeId, m.From, m.Term, TRUE))

\* Step(MsgVoteResp) on a candidate: a majority of grants makes it leader of its
\* term, a majority of rejections makes it a follower again
stepVoteResp(r, m, rt) ==
    IF r.role # "Candidate" \/ m.Term # r.term THEN r
    ELSE LET v == IF m.Reject THEN [r EXCEPT !.rejects = @ \cup {m.From}]
                  ELSE [r EXCEPT !.votes = @ \cup {m.From}]
         IN  IF Cardinality(v.votes) >= voteQuorum(v)
             THEN replica_becomeLeader(v, v.term, rt)
             ELSE IF Cardinality(v.rejects) >= voteQuorum(v)
                  THEN replica_becomeFollower(v, v.term, None, rt, lastLogIndex(v.nodeId))
                  ELSE v

\* Step(MsgPing): a ping of the current or a newer term resets the election
\* timer; the replica follows the sender when the term is newer or it knows no leader
stepPing(r, m, rt) ==
    IF m.Term < r.term \/ (replica_isLeader(r) /\ m.Term = r.term) THEN r
    ELSE IF m.Term > r.term \/ r.leader = None
         THEN replica_becomeFollower(r, m.Term, m.From, rt, lastLogIndex(r.nodeId))
         ELSE [r EXCEPT !.electionElapsed = 0]

\* the options of the replicas: elections are on
OptsInit == electionOn = TRUE

ReplicaInit ==
    /\ replica = [n \in Nodes |-> NewReplica(n)]
    /\ net = {}
    /\ configs = <<[Version |-> 1, Term |-> 0, Leader |-> None,
                    Replicas |-> Nodes, Learners |-> {}]>>
    /\ rlog = [n \in Nodes |-> newReplicaLog]

\* the replica after a step stays inside the explored terms and did not panic
InBounds(r) == r.term <= MaxTerm

\* the cluster appoints a leader: a new configuration of the next term
Appoint ==
    /\ Len(configs) < MaxVersion
    /\ \E l \in Nodes :
          configs' = Append(configs,
              [Version |-> Len(configs) + 1, Term |-> configs[Len(configs)].Term + 1,
               Leader |-> l, Replicas |-> Nodes, Learners |-> {}])
    /\ UNCHANGED <<replica, net, rlog>>
    /\ UNCHANGED nonReplicaVars

\* the host calls Ready() on a replica that HasReady() and sends what it returns
ReplicaReady(n) ==
    /\ ~replica[n].panicked
    /\ replica_HasReady(replica[n])
    /\ LET rd == replica_Ready(replica[n])
       IN  /\ replica' = [replica EXCEPT ![n] = rd.after]
           /\ net' = net \cup {m \in rd.out : m.MsgType \in
                                {"Init", "VoteReq", "VoteResp", "Ping", "LogConflictCheck"}}
    /\ UNCHANGED <<configs, rlog>>
    /\ UNCHANGED nonReplicaVars

\* Step(MsgInitResp): the host answers Init with a configuration it holds
StepInitRespReplica(n) ==
    /\ ~replica[n].panicked
    /\ replica[n].status = "Initing"
    /\ \E m \in net, v \in 1..Len(configs), rt \in RandomizedTimeouts :
          /\ m.MsgType = "Init" /\ m.To = n
          /\ LET s == switchConfig(replica[n], configs[v], rt, lastLogIndex(n))
             IN  /\ InBounds(s)
                 /\ replica' = [replica EXCEPT ![n] =
                        IF s.status = "Initing" THEN [s EXCEPT !.status = "Ready"] ELSE s]
          /\ net' = net \ {m}
    /\ UNCHANGED <<configs, rlog>>
    /\ UNCHANGED nonReplicaVars

\* Step(MsgConfigChange): the host hands an initialized replica a configuration
StepConfigChange(n) ==
    /\ ~replica[n].panicked
    /\ replica[n].status \in {"Ready", "LogConflictCheck"}
    /\ \E v \in 1..Len(configs), rt \in RandomizedTimeouts :
          LET s == switchConfig(replica[n], configs[v], rt, lastLogIndex(n))
          IN  /\ InBounds(s)
              /\ s # replica[n]
              /\ replica' = [replica EXCEPT ![n] = s]
    /\ UNCHANGED <<net, configs, rlog>>
    /\ UNCHANGED nonReplicaVars

\* the host's periodic Tick()
ReplicaTick(n) ==
    /\ ~replica[n].panicked
    /\ replica[n].status \in {"Ready", "LogConflictCheck"}
    /\ \E rt \in RandomizedTimeouts :
          LET s == replica_Tick(replica[n], rt)
          IN  /\ InBounds(s)
              /\ replica' = [replica EXCEPT ![n] = s]
    /\ UNCHANGED <<net, configs, rlog>>
    /\ UNCHANGED nonReplicaVars

\* a message of the network is delivered to its addressee and stepped
ReplicaStep(n) ==
    /\ ~replica[n].panicked
    /\ replica[n].status = "Ready"
    /\ \E m \in net, rt \in RandomizedTimeouts :
          /\ m.To = n
          /\ m.MsgType \in {"VoteReq", "VoteResp", "Ping"}
          /\ LET s == CASE m.MsgType = "VoteReq" -> stepVoteReq(replica[n], m, rt)
                        [] m.MsgType = "VoteResp" -> stepVoteResp(replica[n], m, rt)
                        [] OTHER -> stepPing(replica[n], m, rt)
             IN  /\ InBounds(s)
                 /\ replica' = [replica EXCEPT ![n] = s]
          /\ net' = net \ {m}
    /\ UNCHANGED <<configs, rlog>>
    /\ UNCHANGED nonReplicaVars

ReplicaNext ==
    \/ Appoint
    \/ \E n \in Nodes : ReplicaReady(n)
    \/ \E n \in Nodes : StepInitRespReplica(n)
    \/ \E n \in Nodes : StepConfigChange(n)
    \/ \E n \in Nodes : ReplicaTick(n)
    \/ \E n \in Nodes : ReplicaStep(n)

(***************************************************************************)
(* Replicas that start with a stored log: the log conflict check and the   *)
(* sync requests of a follower under a leader that stays.                  *)
(***************************************************************************)
\* longest log a replica starts with
MaxStoredLog == 1

\* Step(MsgLogConflictCheckResp): the check is answered, the log is cut at the
\* index agreed with the leader and the replica is Ready
StepLogConflictCheckResp(n) ==
    /\ ~replica[n].panicked
    /\ replica[n].status = "LogConflictCheck"
    /\ \E m \in net, k \in 0..lastLogIndex(n) :
          /\ m.MsgType = "LogConflictCheck" /\ m.To = n
          /\ net' = net \ {m}
          /\ rlog' = [rlog EXCEPT ![n].log = SubSeq(@, 1, k)]
    /\ replica' = [replica EXCEPT ![n].status = "Ready"]
    /\ UNCHANGED configs
    /\ UNCHANGED nonReplicaVars

\* Step(MsgSyncResp): the leader's answer to the outstanding sync request
StepSyncResp(n) ==
    /\ ~replica[n].panicked
    /\ replica[n].status = "Ready"
    /\ replica[n].role \in {"Follower", "Learner"}
    /\ replica[n].syncing
    /\ replica' = [replica EXCEPT ![n].syncing = FALSE]
    /\ UNCHANGED <<net, configs, rlog>>
    /\ UNCHANGED nonReplicaVars

ReplicaSyncNext ==
    \/ \E n \in Nodes : ReplicaReady(n)
    \/ \E n \in Nodes : StepInitRespReplica(n)
    \/ \E n \in Nodes : ReplicaTick(n)
    \/ \E n \in Nodes : ReplicaStep(n)
    \/ \E n \in Nodes : StepLogConflictCheckResp(n)
    \/ \E n \in Nodes : StepSyncResp(n)

\* the vote requests a campaign of node n in term t sends: one to every other
\* configured replica, with the last index and term of n's log
voteRequests(n, t, to) ==
    {[MsgType |-> "VoteReq", From |-> n, To |-> p, Term |-> t, Reject |-> FALSE,
      Index |-> lastLogIndex(n), LogTerm |-> lastLogTerm(n)] : p \in to \ {n}}

\* C32: with elections on, a follower's randomized timeout lies in [E, 2E) for
\* E = ElectionIntervalTick, and the tick at which electionElapsed reaches it
\* makes the follower candidate of the next term, voting for itself, without a
\* leader, with one VoteReq carrying its last log index and term for every other
\* configured replica; with elections off no replica is ever a candidate, and a
\* follower becomes candidate in no other way than by that tick.
C32_FollowerCampaigns ==
    [][\A n \in Nodes :
        LET r == replica[n]
            s == replica'[n]
            due == ElectionOn /\ r.electionElapsed + 1 >= r.randomizedElectionTimeout
        IN  /\ r.role = "Follower" =>
                /\ r.randomizedElectionTimeout >= ElectionIntervalTick
                /\ r.randomizedElectionTimeout < 2 * ElectionIntervalTick
            /\ (ReplicaTick(n) /\ r.role = "Follower" /\ due) =>
                /\ s.role = "Candidate"
                /\ s.term = r.term + 1
                /\ s.voteFor = n
                /\ s.leader = None
                /\ s.electionElapsed = 0
                /\ {m \in s.msgs : m.MsgType = "VoteReq"} =
                       voteRequests(n, r.term + 1, r.cfg.Replicas)
            /\ (ReplicaTick(n) /\ r.role = "Follower" /\ ~due) =>
                /\ s.role = "Follower" /\ s.term = r.term /\ s.voteFor = r.voteFor
            /\ (r.role = "Follower" /\ s.role = "Candidate") => due
            /\ ~ElectionOn => s.role # "Candidate"]_vars

\* a replica with a stored entry that followed the leader of its configuration
\* has timed out and campaigns: its vote requests carry that entry's index and term
C32_Witness ==
    \E n \in Nodes :
        /\ electionOn
        /\ replica[n].role = "Candidate"
        /\ replica[n].cfg.Leader \notin {None, n}
        /\ replica[n].voteFor = n
        /\ lastLogIndex(n) = 1
        /\ \E m \in replica[n].msgs :
              m.MsgType = "VoteReq" /\ m.Index = 1 /\ m.LogTerm = 1 /\ m.Term = replica[n].term

\* the messages of a type that Ready() hands out on replica r
readyOut(r, type) == {m \in replica_Ready(r).out : m.MsgType = type}

\* the SyncTimeout message of replica r
syncTimeoutMsg(r) == Message("SyncTimeout", r.nodeId, r.nodeId, 0, FALSE)

C37_LeaderNotInConflictCheck ==
    \A n \in Nodes :
        replica[n].role = "Leader" =>
            /\ replica[n].status # "LogConflictCheck"
            /\ (replica[n].msgs # {} /\ replica[n].status # "Initing")
                    => replica_HasReady(replica[n])

C33_OneVotePerTerm ==
    [][\A n \in Nodes :
        (replica'[n].term = replica[n].term /\ replica[n].voteFor # None)
            => replica'[n].voteFor = replica[n].voteFor]_vars

\* C6: for any term, at most one replica of the shard has role Leader.
C6_OneLeaderPerTerm ==
    \A a, b \in Nodes :
        (replica[a].role = "Leader" /\ replica[b].role = "Leader"
            /\ replica[a].term = replica[b].term) => a = b

\* C17: the term of a replica never decreases, whatever configurations it is
\* handed and whatever role changes, campaigns and messages it goes through.
C17_TermNeverDecreases ==
    [][\A n \in Nodes : replica'[n].term >= replica[n].term]_vars

\* a replica that campaigned is handed a configuration of a lower term and
\* follows it in its own, higher term
C17_Witness ==
    \E n \in Nodes :
        /\ replica[n].cfg.Leader # None
        /\ replica[n].role \in {"Leader", "Follower"}
        /\ replica[n].term = MaxTerm
        /\ replica[n].cfg.Term < replica[n].term

(***************************************************************************)
(* Channel placement and the channel's replicated log (pkg/cluster         *)
(* channelGroupManager): the slot leader stores the placement of a channel *)
(* and elects the channel leader; the replicas of the channel follow the   *)
(* placement, replicate the leader's log by polling, commit and apply.     *)
(***************************************************************************)
\* no placement stored / cached
NoPlacement == [LeaderId |-> None, Term |-> 0, Replicas |-> {}]
\* the result of a fetch that returned an error
FetchError == [LeaderId |-> None, Term |-> 0, Replicas |-> {None}]

\* the leader id of a call that ended in a nil-pointer panic, and its result
Nil == None - 1
ElectionPanic == [LeaderId |-> None, Term |-> 0, Replicas |-> {Nil}]

\* quorum without the added one: half of the replicas
quorum_half == IF singleNode THEN 1 ELSE ChannelMaxReplicaCount \div 2

\* channelGroupManager.quorum: 1 on a single node, else ChannelMaxReplicaCount/2 + 1
quorum == IF singleNode THEN 1 ELSE (ChannelMaxReplicaCount \div 2) + 1

\* localStorage.leaderLastTerm on node n: the term of the last leader that
\* wrote to the log kept by n, 0 when n holds no entry of the channel
leaderLastTerm(n) ==
    IF Len(slog[n]) = 0 THEN 0 ELSE slog[n][Len(slog[n])].Term

\* createChannelClusterInfo: the loop over the shuffled allow-vote nodes, which
\* skips self, appends the node and then stops once count ids are held
RECURSIVE appendReplicas(_, _, _, _)
appendReplicas(replicaIDs, newOnlineNodes, self, count) ==
    IF newOnlineNodes = <<>> THEN replicaIDs
    ELSE IF Head(newOnlineNodes) = self
         THEN appendReplicas(replicaIDs, Tail(newOnlineNodes), self, count)
    ELSE IF Len(replicaIDs) + 1 >= count
         THEN Append(replicaIDs, Head(newOnlineNodes))
    ELSE appendReplicas(Append(replicaIDs, Head(newOnlineNodes)),
                        Tail(newOnlineNodes), self, count)

\* createChannelClusterInfo: the replica ids, self first, for the shuffled
\* allow-vote nodes and ChannelMaxReplicaCount = count
createReplicaIDs(self, newOnlineNodes, count) ==
    appendReplicas(<<self>>, newOnlineNodes, self, count)

\* the allow-vote nodes of the cluster of ShardNodes, in some order
allowVoteNodes == <<1, 2, 3>>

\* channelGroupManager.createChannelClusterInfo on node self: no leader, the
\* last leader term, and self plus the other vote nodes as replicas
createChannelClusterInfo(self) ==
    LET replicaIDs == createReplicaIDs(self, allowVoteNodes, ChannelMaxReplicaCount)
    IN  [LeaderId |-> None, Term |-> leaderLastTerm(self),
         Replicas |-> {replicaIDs[i] : i \in 1..Len(replicaIDs)}]

\* needElection without the look at the leader's Online flag
needElection_ignoreOnline(cfg, self, slotLeaderId) == slotLeaderId = self

\* needElection without the look at the slot's leader
needElection_anyNode(cfg, self, slotLeaderId) ==
    cfg.LeaderId = None \/ ~online[cfg.LeaderId]

\* channelGroupManager.needElection on node self, slotLeaderId being slot.Leader
needElection(cfg, self, slotLeaderId) ==
    IF slotLeaderId # self THEN FALSE
    ELSE IF cfg.LeaderId # None /\ online[cfg.LeaderId] THEN FALSE
    ELSE TRUE

\* channelGroupManager.checkOnlineReplicaCount on node self
checkOnlineReplicaCount(cfg, self) ==
    Cardinality({n \in cfg.Replicas : n = self \/ online[n]}) >= quorum

\* channelGroupManager.requestChannelLastLogInfos on node self: the sets of
\* replicas whose last log index can arrive; a remote request may fail
requestChannelLastLogInfos(cfg, self) ==
    {resp \in SUBSET {n \in cfg.Replicas : online[n]} : self \in cfg.Replicas => self \in resp}

\* channelGroupManager.channelLeaderIDByLogInfo on node self, given the map
\* from the replicas that answered to their last log index: the highest index
\* above 0 wins (the map is walked in no fixed order, so any replica at the
\* highest index can be found first); unless self was found, the entry of self
\* is read, which is nil when self did not answer, and self is preferred when
\* it is as high
channelLeaderIDByLogInfo(channelLogInfoMap, self) ==
    LET resp == DOMAIN channelLogInfoMap
        leaderLogIndex == CHOOSE i \in {channelLogInfoMap[n] : n \in resp} \cup {0} :
                              \A n \in resp : channelLogInfoMap[n] <= i
        found == IF leaderLogIndex = 0 THEN {None}
                 ELSE {n \in resp : channelLogInfoMap[n] = leaderLogIndex}
    IN  {IF leaderID = self THEN leaderID
         ELSE IF self \notin resp THEN Nil
         ELSE IF channelLogInfoMap[self] >= leaderLogIndex THEN self
         ELSE leaderID : leaderID \in found}

\* the map a poll builds from the replicas resp that answered
logInfoMap(resp) == [n \in resp |-> Len(slog[n])]

\* channelGroupManager.electionIfNeed on node self with the answers resp and
\* the leader chosen from them: the configuration after the election,
\* FetchError, or ElectionPanic
electionIfNeed(cfg, self, slotLeaderId, resp, newLeaderID) ==
    IF ~needElection(cfg, self, slotLeaderId) THEN cfg
    ELSE IF ~checkOnlineReplicaCount(cfg, self) THEN FetchError
    ELSE IF Cardinality(resp) < quorum THEN FetchError
    ELSE IF newLeaderID = Nil THEN ElectionPanic
    ELSE IF newLeaderID = None THEN FetchError
    ELSE [cfg EXCEPT !.LeaderId = newLeaderID, !.Term = cfg.Term + 1]

\* channelGroupManager.electionIfNeed: channel.clusterConfig, which also gives
\* the channel's leaderId, as the call leaves it when the save that follows
\* fails; the new leader and term are written through the pointer before the save
electionInMemory(cfg, self, slotLeaderId, resp, newLeaderID) ==
    IF electionIfNeed(cfg, self, slotLeaderId, resp, newLeaderID) \in {FetchError, ElectionPanic}
    THEN cfg
    ELSE electionIfNeed(cfg, self, slotLeaderId, resp, newLeaderID)

\* the slot leader self loads a channel that is not in its channel group
\* (getChannelForSlotLeader past the cache check): the stored placement, or a
\* new one, is saved, then the election runs if needed.  The possible outcomes:
\* the placement stored in the end, and the record returned (or FetchError)
loadChannel(self) ==
    LET cfg == IF placement = NoPlacement
               THEN createChannelClusterInfo(self) ELSE placement
    IN  UNION {{[saved |-> IF electionIfNeed(cfg, self, self, resp, l) \in {FetchError, ElectionPanic}
                           THEN cfg ELSE electionIfNeed(cfg, self, self, resp, l),
                 ret |-> electionIfNeed(cfg, self, self, resp, l)] :
                    l \in channelLeaderIDByLogInfo(logInfoMap(resp), self)} :
               resp \in requestChannelLastLogInfos(cfg, self)}

ShardInit ==
    /\ online = [n \in ShardNodes |-> TRUE]
    /\ placement = NoPlacement
    /\ cache = [n \in ShardNodes |-> NoPlacement]
    /\ fetch = [by |-> None, cached |-> FALSE, pre |-> NoPlacement, leaderOnline |-> FALSE,
                post |-> NoPlacement, ret |-> NoPlacement,
                prevBy |-> None, prev |-> NoPlacement]
    /\ view = [n \in ShardNodes |->
                  [role |-> "Unknown", leader |-> None, term |-> 0, status |-> "Ready"]]
    /\ slog = [n \in ShardNodes |-> <<>>]
    /\ committedIndex = [n \in ShardNodes |-> 0]
    /\ applied = [n \in ShardNodes |-> <<>>]
    /\ lastSyncInfoMap = [l \in ShardNodes |-> [f \in ShardNodes |-> 0]]
    /\ proposed = 0
    /\ events = 0

\* the fetch on node self: whether the channel group held the channel, the
\* placement found and whether its leader was online, the placement stored
\* in the end, the record returned, and the node and result of the fetch before
fetchRecord(self, saved, returned) ==
    [by |-> self, cached |-> cache[self] # NoPlacement, pre |-> placement,
     leaderOnline |-> placement.LeaderId # None /\ online[placement.LeaderId],
     post |-> saved, ret |-> returned, prevBy |-> fetch.by, prev |-> fetch.ret]

\* loadOrCreateChannel / getChannelForSlotLeader on the node that leads the
\* channel's slot; the slot's leadership can have moved to any online node
\* since the last fetch
ShardFetch ==
    /\ \E self \in ShardNodes :
          /\ online[self]
          /\ IF cache[self] # NoPlacement
             THEN /\ fetch' = fetchRecord(self, placement, cache[self])
                  /\ UNCHANGED <<placement, cache>>
             ELSE \E o \in loadChannel(self) :
                     /\ o.saved.Term <= MaxShardTerm
                     /\ placement' = o.saved
                     /\ cache' = IF o.ret \in {FetchError, ElectionPanic} THEN cache
                                 ELSE [cache EXCEPT ![self] = o.ret]
                     /\ fetch' = fetchRecord(self, o.saved, o.ret)
    /\ UNCHANGED <<online, view, slog, committedIndex, applied, lastSyncInfoMap, proposed, events>>
    /\ UNCHANGED nonShardVars

\* the slot leader loads the channel and elects its leader if needed
\* (getChannelForSlotLeader on a node whose channel group does not hold the
\* channel; the channel groups are left out of this action)
ShardElection ==
    /\ \E self \in ShardNodes :
          /\ online[self]
          /\ \E o \in loadChannel(self) :
                /\ o.saved.Term <= MaxShardTerm
                /\ o.saved # placement
                /\ placement' = o.saved
    /\ UNCHANGED <<online, cache, fetch, view, slog, committedIndex, applied, lastSyncInfoMap, proposed, events>>
    /\ UNCHANGED nonShardVars

\* the channel object of node n is closed and leaves the channel group
CacheEvict(n) ==
    /\ cache[n] # NoPlacement
    /\ events < MaxEvents
    /\ events' = events + 1
    /\ cache' = [cache EXCEPT ![n] = NoPlacement]
    /\ UNCHANGED <<online, placement, fetch, view, slog, committedIndex, applied, lastSyncInfoMap, proposed>>
    /\ UNCHANGED nonShardVars

\* SetNodeOnline(n, false)
NodeOffline(n) ==
    /\ online[n]
    /\ events < MaxEvents
    /\ events' = events + 1
    /\ online' = [online EXCEPT ![n] = FALSE]
    /\ UNCHANGED <<placement, cache, fetch, view, slog, committedIndex, applied, lastSyncInfoMap, proposed>>
    /\ UNCHANGED nonShardVars

\* SetNodeOnline(n, true)
NodeOnline(n) ==
    /\ ~online[n]
    /\ online' = [online EXCEPT ![n] = TRUE]
    /\ UNCHANGED <<placement, cache, fetch, view, slog, committedIndex, applied, lastSyncInfoMap, proposed, events>>
    /\ UNCHANGED nonShardVars

\* the replica of node n is handed the stored placement (switchConfig): it
\* becomes leader of the placement's term, or follower of its leader; a
\* follower with a non-empty log first checks its log for conflicts
ShardSwitchConfig(n) ==
    /\ online[n]
    /\ placement.LeaderId # None
    /\ n \in placement.Replicas
    /\ placement.Term > view[n].term
    /\ IF placement.LeaderId = n
       THEN /\ view' = [view EXCEPT ![n] = [role |-> "Leader", leader |-> n,
                                            term |-> placement.Term, status |-> "Ready"]]
            /\ lastSyncInfoMap' = [lastSyncInfoMap EXCEPT ![n] = [f \in ShardNodes |-> 0]]
       ELSE /\ view' = [view EXCEPT ![n] =
                          [role |-> "Follower", leader |-> placement.LeaderId,
                           term |-> placement.Term,
                           status |-> IF Len(slog[n]) > 0 THEN "LogConflictCheck" ELSE "Ready"]]
            /\ UNCHANGED lastSyncInfoMap
    /\ UNCHANGED <<online, placement, cache, fetch, slog, committedIndex, applied, proposed, events>>
    /\ UNCHANGED nonShardVars

\* replicaLog.lastLogIndex of node n: the index of the last entry appended
shardLastLogIndex(n) ==
    IF Len(slog[n]) = 0 THEN 0 ELSE slog[n][Len(slog[n])].Index

\* NewProposeMessage with the last index reused instead of the next one
NewProposeMessage_sameIndex(n, data) ==
    [Index |-> shardLastLogIndex(n), Term |-> view[n].term, Data |-> data]

\* Replica.NewProposeMessage: the one log of the propose message
NewProposeMessage(n, data) ==
    [Index |-> shardLastLogIndex(n) + 1, Term |-> view[n].term, Data |-> data]

\* Replica.Propose on the leader: the entry of the propose message is
\* appended to the leader's log
ProposeWithin(n, maxLog, maxProposals) ==
    /\ online[n]
    /\ view[n].role = "Leader"
    /\ Len(slog[n]) < maxLog
    /\ proposed < maxProposals
    /\ proposed' = proposed + 1
    /\ slog' = [slog EXCEPT ![n] = Append(@, NewProposeMessage(n, proposed + 1))]
    /\ UNCHANGED <<online, placement, cache, fetch, view, committedIndex, applied, lastSyncInfoMap, events>>
    /\ UNCHANGED nonShardVars

ShardPropose(n) == ProposeWithin(n, MaxLog, MaxProposals)

\* Propose where the log may grow to MaxDenseLog entries
ShardProposeLong(n) == ProposeWithin(n, MaxDenseLog, MaxDenseLog)

\* the follower f and the leader l follow the same placement and can talk
InSync(f, l) ==
    /\ online[f] /\ online[l] /\ f # l
    /\ view[f].role = "Follower" /\ view[f].leader = l
    /\ view[l].role = "Leader" /\ view[l].term = view[f].term

\* the highest index up to which the logs of f and l agree
agreedIndex(f, l) ==
    CHOOSE i \in 0..Min(Len(slog[f]), Len(slog[l])) :
        /\ \A j \in 1..i : slog[f][j] = slog[l][j]
        /\ \A k \in (i + 1)..Min(Len(slog[f]), Len(slog[l])) :
              \E j \in 1..k : slog[f][j] # slog[l][j]

\* LogConflictCheck and its response: the follower truncates its log to the
\* highest agreed index and becomes Ready
ShardConflictCheck(f) ==
    /\ view[f].status = "LogConflictCheck"
    /\ \E l \in ShardNodes :
          /\ InSync(f, l)
          /\ slog' = [slog EXCEPT ![f] = SubSeq(@, 1, agreedIndex(f, l))]
          /\ committedIndex' = [committedIndex EXCEPT ![f] = Min(@, agreedIndex(f, l))]
    /\ view' = [view EXCEPT ![f].status = "Ready"]
    /\ UNCHANGED <<online, placement, cache, fetch, applied, lastSyncInfoMap, proposed, events>>
    /\ UNCHANGED nonShardVars

\* the commit index of leader l once the followers reported sync: the highest
\* index i for which a majority, counting the leader, has LastSyncIndex > i
leaderCommit(l, sync) ==
    LET ok(i) == 1 + Cardinality({g \in ShardNodes \ {l} : sync[g] > i}) >= quorum
        best == CHOOSE i \in 0..Len(slog[l]) :
                    ok(i) /\ \A j \in 0..Len(slog[l]) : ok(j) => j <= i
    IN  Max(committedIndex[l], best)

\* SyncReq{nextIndex} of follower f and the leader's SyncResp: the leader
\* records the follower's index and commits, the follower appends the entries
\* after its own and takes the leader's commit index; a follower whose last
\* entry does not match the leader's goes to LogConflictCheck
ShardSync(f) ==
    /\ view[f].status = "Ready"
    /\ \E l \in ShardNodes :
          /\ InSync(f, l)
          /\ IF Len(slog[f]) > 0
                /\ (Len(slog[l]) < Len(slog[f])
                    \/ slog[l][Len(slog[f])].Term # slog[f][Len(slog[f])].Term)
             THEN /\ view' = [view EXCEPT ![f].status = "LogConflictCheck"]
                  /\ UNCHANGED <<slog, committedIndex, lastSyncInfoMap>>
             ELSE LET sync == [lastSyncInfoMap[l] EXCEPT ![f] = Len(slog[f]) + 1]
                      commit == leaderCommit(l, sync)
                  IN  /\ lastSyncInfoMap' = [lastSyncInfoMap EXCEPT ![l] = sync]
                      /\ slog' = [slog EXCEPT ![f] =
                            @ \o SubSeq(slog[l], Len(@) + 1, Len(slog[l]))]
                      /\ committedIndex' = [committedIndex EXCEPT
                            ![l] = commit,
                            ![f] = Max(@, Min(commit, Len(slog[l])))]
                      /\ UNCHANGED view
    /\ UNCHANGED <<online, placement, cache, fetch, applied, proposed, events>>
    /\ UNCHANGED nonShardVars

\* Ready: the log is applied up to min(storagedIndex, committedIndex)
ShardApply(n) ==
    /\ online[n]
    /\ Len(applied[n]) < Min(Len(slog[n]), committedIndex[n])
    /\ applied' = [applied EXCEPT ![n] =
          @ \o [i \in 1..(Min(Len(slog[n]), committedIndex[n]) - Len(@)) |->
                    slog[n][Len(applied[n]) + i].Data]]
    /\ UNCHANGED <<online, placement, cache, fetch, view, slog, committedIndex, lastSyncInfoMap, proposed, events>>
    /\ UNCHANGED nonShardVars

\* GetReplicaLastLog without the step back from the next index to the last one
GetReplicaLastLog_nextIndex(l, g, sync) ==
    IF g = l THEN shardLastLogIndex(l)
    ELSE IF sync[g] > 0 THEN sync[g] ELSE 0

\* Replica.GetReplicaLastLog on leader l for replica g, from the sync records sync
GetReplicaLastLog(l, g, sync) ==
    IF g = l THEN shardLastLogIndex(l)
    ELSE IF sync[g] > 0 THEN sync[g] - 1 ELSE 0

\* the replicas that, by the records of leader l after the step, have synced
\* through index i: the leader and the replicas with LastSyncIndex > i
syncedThrough(l, i) == {l} \cup {g \in ShardNodes \ {l} : lastSyncInfoMap'[l][g] > i}

\* the replicas whose log after the step holds the leader's entry of index i
holdersOf(l, i) ==
    {g \in ShardNodes : Len(slog'[g]) >= i /\ slog'[g][i] = slog'[l][i]}

ShardNext ==
    \/ ShardElection
    \/ \E n \in ShardNodes : NodeOffline(n)
    \/ \E n \in ShardNodes : NodeOnline(n)
    \/ \E n \in ShardNodes : ShardSwitchConfig(n)
    \/ \E n \in ShardNodes : ShardPropose(n)
    \/ \E n \in ShardNodes : ShardConflictCheck(n)
    \/ \E n \in ShardNodes : ShardSync(n)
    \/ \E n \in ShardNodes : ShardApply(n)

ShardLogNext ==
    \/ ShardElection
    \/ \E n \in ShardNodes : NodeOffline(n)
    \/ \E n \in ShardNodes : NodeOnline(n)
    \/ \E n \in ShardNodes : ShardSwitchConfig(n)
    \/ \E n \in ShardNodes : ShardProposeLong(n)
    \/ \E n \in ShardNodes : ShardConflictCheck(n)
    \/ \E n \in ShardNodes : ShardSync(n)

PlacementNext ==
    \/ ShardFetch
    \/ \E n \in ShardNodes : CacheEvict(n)
    \/ \E n \in ShardNodes : NodeOffline(n)
    \/ \E n \in ShardNodes : NodeOnline(n)
    \/ \E n \in ShardNodes : ShardSwitchConfig(n)
    \/ \E n \in ShardNodes : ShardPropose(n)

\* proposeMessages on node n whose channel object still holds an older
\* placement: n is not the leader of that placement and forwards to its
\* leader, which is no longer the leader of the channel and answers
\* ClusterConfigOld; n deletes the stored placement (its channel object stays)
PlacementDelete(n) ==
    /\ online[n]
    /\ cache[n] # NoPlacement
    /\ cache[n].LeaderId # None /\ cache[n].LeaderId # n
    /\ online[cache[n].LeaderId]
    /\ placement.LeaderId # None
    /\ placement.LeaderId # cache[n].LeaderId
    /\ cache[n].Term < placement.Term
    /\ placement' = NoPlacement
    /\ UNCHANGED <<online, cache, fetch, view, slog, committedIndex, applied, lastSyncInfoMap, proposed, events>>
    /\ UNCHANGED nonShardVars

PlacementTermNext ==
    \/ ShardFetch
    \/ \E n \in ShardNodes : PlacementDelete(n)
    \/ \E n \in ShardNodes : CacheEvict(n)
    \/ \E n \in ShardNodes : NodeOffline(n)
    \/ \E n \in ShardNodes : NodeOnline(n)
    \/ \E n \in ShardNodes : ShardSwitchConfig(n)
    \/ \E n \in ShardNodes : ShardPropose(n)

\* the placement records that name a leader: the stored one, the ones held by
\* the channel objects of the nodes, and the ones the replicas act on
placementRecords ==
    {r \in {[LeaderId |-> placement.LeaderId, Term |-> placement.Term]}
            \cup {[LeaderId |-> cache[n].LeaderId, Term |-> cache[n].Term] : n \in ShardNodes}
            \cup {[LeaderId |-> view[n].leader, Term |-> view[n].term] : n \in ShardNodes} :
        r.LeaderId # None}

\* C12: no two placement records of the channel with the same term name
\* different leaders, so at most one node leads the channel in a placement term.
C12_OneLeaderPerPlacementTerm ==
    \A a, b \in placementRecords : a.Term = b.Term => a.LeaderId = b.LeaderId

\* C7: the entries the replicas of a shard apply agree index by index: no two
\* replicas apply different entries at the same index.
C7_AppliedEntriesAgree ==
    \A a, b \in ShardNodes :
        \A i \in 1..Min(Len(applied[a]), Len(applied[b])) : applied[a][i] = applied[b][i]

initNode == [Online |-> TRUE, OfflineCount |-> 0, DataTerm |-> 1, ApiAddr |-> 0]

\* createAndInitClusterConfig: the configuration written at the first start
createAndInitClusterConfig ==
    [Version |-> 0, Term |-> 0, Nodes |-> [n \in CfgNodes |-> initNode]]

\* NewClusterEventManager: the configuration file is created with version 0
ClusterConfigInit ==
    /\ clusterconfig = createAndInitClusterConfig
    /\ persisted = <<createAndInitClusterConfig.Version>>

\* ClusterEventManager.save of configuration cfg: the file is replaced by
\* cfg, unless creating, writing or renaming the temporary file fails
save(cfg, ok) ==
    persisted' = IF ok THEN Append(persisted, cfg.Version) ELSE persisted

\* ClusterEventManager.saveAndVersionInc on configuration cfg
saveAndVersionInc(cfg, ok) ==
    /\ clusterconfig' = [cfg EXCEPT !.Version = @ + 1]
    /\ save([cfg EXCEPT !.Version = @ + 1], ok)

\* ClusterEventManager.SetNodeOnlineNoSave
SetNodeOnlineNoSave(cfg, nodeID, on) ==
    [cfg EXCEPT !.Nodes[nodeID] =
        IF on THEN [@ EXCEPT !.Online = TRUE]
        ELSE [@ EXCEPT !.Online = FALSE, !.OfflineCount = @ + 1, !.DataTerm = @ + 1]]

\* the configurations another node can send to UpdateClusterConfig
ReceivedConfigs ==
    {[Version |-> v, Term |-> t, Nodes |-> [n \in CfgNodes |-> initNode]] :
        v \in 0..MaxCfgVersion, t \in 0..MaxCfgTerm}

\* the explored part: versions and writes are bounded
CfgInBounds == clusterconfig.Version < MaxCfgVersion /\ Len(persisted) < MaxWrites

\* ClusterEventManager.SetTerm
SetTerm ==
    /\ CfgInBounds
    /\ \E term \in 0..MaxCfgTerm, ok \in BOOLEAN :
          saveAndVersionInc([clusterconfig EXCEPT !.Term = term], ok)
    /\ UNCHANGED nonCfgVars

\* ClusterEventManager.SetNodeOnline
SetNodeOnline ==
    /\ CfgInBounds
    /\ \E nodeID \in CfgNodes, on \in BOOLEAN, ok \in BOOLEAN :
          saveAndVersionInc(SetNodeOnlineNoSave(clusterconfig, nodeID, on), ok)
    /\ UNCHANGED nonCfgVars

\* ClusterEventManager.UpdateNode: only the API address is taken
UpdateNode ==
    /\ CfgInBounds
    /\ \E nodeID \in CfgNodes, addr \in 0..1, ok \in BOOLEAN :
          saveAndVersionInc([clusterconfig EXCEPT !.Nodes[nodeID].ApiAddr = addr], ok)
    /\ UNCHANGED nonCfgVars

\* ClusterEventManager.SaveAndVersionInc
SaveAndVersionInc ==
    /\ CfgInBounds
    /\ \E ok \in BOOLEAN : saveAndVersionInc(clusterconfig, ok)
    /\ UNCHANGED nonCfgVars

\* ClusterEventManager.UpdateClusterConfig: the configuration is replaced by
\* cfg and saved as it is
UpdateClusterConfig ==
    /\ Len(persisted) < MaxWrites
    /\ \E cfg \in ReceivedConfigs, ok \in BOOLEAN :
          /\ clusterconfig' = cfg
          /\ save(cfg, ok)
    /\ UNCHANGED nonCfgVars

ClusterConfigNext ==
    \/ SetTerm
    \/ SetNodeOnline
    \/ UpdateNode
    \/ SaveAndVersionInc
    \/ UpdateClusterConfig

\* C8: every version written to disk is strictly greater than the version
\* written before it.
C8_PersistedVersionIncreases ==
    \A i \in 1..(Len(persisted) - 1) : persisted[i] < persisted[i + 1]

(***************************************************************************)
(* Restart of a node: NewClusterEventManager on a DataDir that holds the   *)
(* configuration file a run before has written.                            *)
(***************************************************************************)
\* restarts explored
MaxRestarts == 2

\* a file whose content does not parse: a shorter text was written over the
\* start of a longer one
CorruptFile == [Version |-> 0, Term |-> 0, Nodes |-> << >>]

FileInit ==
    /\ cfgFile = createAndInitClusterConfig
    /\ restarts = 0

\* os.Stat of the configuration file: nil when the file is there
osStat(exists) == IF exists THEN "nil" ELSE "ErrNotExist"

\* os.IsExist: true of the errors that report that a file already exists
osIsExist(err) == err = "ErrExist"

\* ClusterEventManager.existClusterConfig
existClusterConfig(exists) ==
    IF osStat(exists) # "nil"
    THEN IF osIsExist(osStat(exists)) THEN TRUE ELSE FALSE
    ELSE FALSE

\* ClusterEventManager.save, with the file's content kept
saveFile(ok) ==
    cfgFile' = IF ok THEN clusterconfig' ELSE cfgFile

\* ClusterEventManager.SetTerm on a node that can restart
SetTermSaved ==
    /\ CfgInBounds
    /\ \E term \in 0..MaxCfgTerm, ok \in BOOLEAN :
          /\ saveAndVersionInc([clusterconfig EXCEPT !.Term = term], ok)
          /\ saveFile(ok)
    /\ UNCHANGED restarts
    /\ UNCHANGED nonCfgFileVars

\* ClusterEventManager.SetNodeOnline on a node that can restart
SetNodeOnlineSaved ==
    /\ CfgInBounds
    /\ \E nodeID \in CfgNodes, on \in BOOLEAN, ok \in BOOLEAN :
          /\ saveAndVersionInc(SetNodeOnlineNoSave(clusterconfig, nodeID, on), ok)
          /\ saveFile(ok)
    /\ UNCHANGED restarts
    /\ UNCHANGED nonCfgFileVars

\* NewClusterEventManager on the DataDir of the run before: the configuration
\* is read from the file when existClusterConfig finds it, and created
\* otherwise.  createAndInitClusterConfig opens the file without truncating it
\* and writes the new text at its start: a longer text of the run before
\* keeps its tail
NewClusterEventManager ==
    /\ restarts < MaxRestarts
    /\ Len(persisted) < MaxWrites
    /\ restarts' = restarts + 1
    /\ IF existClusterConfig(TRUE)
       THEN /\ clusterconfig' = cfgFile
            /\ UNCHANGED <<cfgFile, persisted>>
       ELSE /\ clusterconfig' = createAndInitClusterConfig
            /\ persisted' = Append(persisted, createAndInitClusterConfig.Version)
            /\ cfgFile' \in IF cfgFile = createAndInitClusterConfig
                             THEN {createAndInitClusterConfig}
                             ELSE {createAndInitClusterConfig, CorruptFile}
    /\ UNCHANGED nonCfgFileVars

RestartNext ==
    \/ SetTermSaved
    \/ SetNodeOnlineSaved
    \/ NewClusterEventManager

\* C39: a restart on a DataDir that holds a configuration file loads that
\* configuration, version, term and nodes, instead of creating a new one of
\* version 0, and leaves the file as it is: the persisted version does not go
\* back across a restart.
C39_RestartLoadsPersisted ==
    [][restarts' = restarts + 1 =>
          /\ clusterconfig' = cfgFile
          /\ cfgFile' = cfgFile
          /\ cfgFile'.Version >= cfgFile.Version]_vars

(***************************************************************************)
(* The locks of the cluster configuration manager: goroutines that call    *)
(* SetNodeOnline, GetAllOnlineNode, NodeIsOnline and GetDataTerm, one      *)
(* statement at a time.                                                    *)
(***************************************************************************)
\* goroutines that call the manager
CfgCallers == {1, 2}

LockInit ==
    /\ clusterconfigLock = 0
    /\ othersNodeConfigVersionMapLock = 0
    /\ tpc = [t \in CfgCallers |-> "idle"]
    /\ targ = [t \in CfgCallers |-> [nodeID |-> 1, online |-> TRUE]]

\* goroutine t moves from statement a to statement b
goto(t, a, b) == tpc[t] = a /\ tpc' = [tpc EXCEPT ![t] = b]

\* SetNodeOnline(nodeID, online) is called: SetNodeOnlineNoSave takes no lock
SetNodeOnlineCall(t) ==
    /\ CfgInBounds
    /\ goto(t, "idle", "node.Online")
    /\ \E nodeID \in CfgNodes, on \in BOOLEAN :
          targ' = [targ EXCEPT ![t] = [nodeID |-> nodeID, online |-> on]]
    /\ UNCHANGED <<clusterconfigLock, othersNodeConfigVersionMapLock>>
    /\ UNCHANGED <<cfgVars, fileVars>>
    /\ UNCHANGED nonCfgLockVars

\* SetNodeOnlineNoSave: node.Online = online
SetNodeOnlineStore(t) ==
    /\ goto(t, "node.Online", IF targ[t].online THEN "SaveAndVersionInc" ELSE "node.OfflineCount")
    /\ clusterconfig' = [clusterconfig EXCEPT !.Nodes[targ[t].nodeID].Online = targ[t].online]
    /\ UNCHANGED <<clusterconfigLock, othersNodeConfigVersionMapLock, targ, persisted>>
    /\ UNCHANGED fileVars
    /\ UNCHANGED nonCfgLockVars

\* SetNodeOnlineNoSave: node.OfflineCount++; node.DataTerm++
SetNodeOnlineCount(t) ==
    /\ goto(t, "node.OfflineCount", "SaveAndVersionInc")
    /\ clusterconfig' = [clusterconfig EXCEPT
            !.Nodes[targ[t].nodeID].OfflineCount = @ + 1,
            !.Nodes[targ[t].nodeID].DataTerm = @ + 1]
    /\ UNCHANGED <<clusterconfigLock, othersNodeConfigVersionMapLock, targ, persisted>>
    /\ UNCHANGED fileVars
    /\ UNCHANGED nonCfgLockVars

\* SaveAndVersionInc: c.clusterconfigLock.Lock()
SaveAndVersionIncLock(t) ==
    /\ goto(t, "SaveAndVersionInc", "saveAndVersionInc")
    /\ clusterconfigLock = 0
    /\ clusterconfigLock' = t
    /\ UNCHANGED <<othersNodeConfigVersionMapLock, targ>>
    /\ UNCHANGED <<cfgVars, fileVars>>
    /\ UNCHANGED nonCfgLockVars

\* SaveAndVersionInc: c.saveAndVersionInc()
SaveAndVersionIncSave(t) ==
    /\ goto(t, "saveAndVersionInc", "Unlock")
    /\ \E ok \in BOOLEAN : saveAndVersionInc(clusterconfig, ok) /\ saveFile(ok)
    /\ UNCHANGED <<clusterconfigLock, othersNodeConfigVersionMapLock, targ, restarts>>
    /\ UNCHANGED nonCfgLockVars

\* the deferred c.clusterconfigLock.Unlock()
ClusterconfigUnlock(t) ==
    /\ goto(t, "Unlock", "idle")
    /\ clusterconfigLock' = 0
    /\ UNCHANGED <<othersNodeConfigVersionMapLock, targ>>
    /\ UNCHANGED <<cfgVars, fileVars>>
    /\ UNCHANGED nonCfgLockVars

\* GetAllOnlineNode and NodeIsOnline: c.othersNodeConfigVersionMapLock.Lock()
OnlineNodesLock(t) ==
    /\ \E to \in {"GetAllOnlineNode", "NodeIsOnline"} : goto(t, "idle", to)
    /\ othersNodeConfigVersionMapLock = 0
    /\ othersNodeConfigVersionMapLock' = t
    /\ UNCHANGED <<clusterconfigLock, targ>>
    /\ UNCHANGED <<cfgVars, fileVars>>
    /\ UNCHANGED nonCfgLockVars

\* GetAllOnlineNode: nodes := c.clusterconfig.Nodes and the test of the first
\* node's Online; the loop goes on to the next node
GetAllOnlineNodeFirst(t) ==
    /\ goto(t, "GetAllOnlineNode", "GetAllOnlineNode.next")
    /\ UNCHANGED <<clusterconfigLock, othersNodeConfigVersionMapLock, targ>>
    /\ UNCHANGED <<cfgVars, fileVars>>
    /\ UNCHANGED nonCfgLockVars

\* GetAllOnlineNode: the test of the last node's Online
GetAllOnlineNodeLast(t) ==
    /\ goto(t, "GetAllOnlineNode.next", "othersUnlock")
    /\ UNCHANGED <<clusterconfigLock, othersNodeConfigVersionMapLock, targ>>
    /\ UNCHANGED <<cfgVars, fileVars>>
    /\ UNCHANGED nonCfgLockVars

\* NodeIsOnline: the node is looked up and its Online returned
NodeIsOnlineRead(t) ==
    /\ goto(t, "NodeIsOnline", "othersUnlock")
    /\ UNCHANGED <<clusterconfigLock, othersNodeConfigVersionMapLock, targ>>
    /\ UNCHANGED <<cfgVars, fileVars>>
    /\ UNCHANGED nonCfgLockVars

\* the deferred c.othersNodeConfigVersionMapLock.Unlock()
OnlineNodesUnlock(t) ==
    /\ goto(t, "othersUnlock", "idle")
    /\ othersNodeConfigVersionMapLock' = 0
    /\ UNCHANGED <<clusterconfigLock, targ>>
    /\ UNCHANGED <<cfgVars, fileVars>>
    /\ UNCHANGED nonCfgLockVars

\* GetDataTerm: c.clusterconfigLock.Lock()
GetDataTermLock(t) ==
    /\ goto(t, "idle", "GetDataTerm")
    /\ clusterconfigLock = 0
    /\ clusterconfigLock' = t
    /\ UNCHANGED <<othersNodeConfigVersionMapLock, targ>>
    /\ UNCHANGED <<cfgVars, fileVars>>
    /\ UNCHANGED nonCfgLockVars

\* GetDataTerm: the node is looked up and its DataTerm returned
GetDataTermRead(t) ==
    /\ goto(t, "GetDataTerm", "Unlock")
    /\ UNCHANGED <<clusterconfigLock, othersNodeConfigVersionMapLock, targ>>
    /\ UNCHANGED <<cfgVars, fileVars>>
    /\ UNCHANGED nonCfgLockVars

LockNext ==
    \E t \in CfgCallers :
        \/ SetNodeOnlineCall(t)
        \/ SetNodeOnlineStore(t)
        \/ SetNodeOnlineCount(t)
        \/ SaveAndVersionIncLock(t)
        \/ SaveAndVersionIncSave(t)
        \/ ClusterconfigUnlock(t)
        \/ OnlineNodesLock(t)
        \/ GetAllOnlineNodeFirst(t)
        \/ GetAllOnlineNodeLast(t)
        \/ NodeIsOnlineRead(t)
        \/ OnlineNodesUnlock(t)
        \/ GetDataTermLock(t)
        \/ GetDataTermRead(t)

\* the statements that read the in-memory configuration, and those that write it
readsConfig == {"GetAllOnlineNode", "GetAllOnlineNode.next", "NodeIsOnline", "GetDataTerm"}
writesConfig == {"node.Online", "node.OfflineCount", "saveAndVersionInc"}

\* the statements between two reads, or two writes, of one call
midRead == {"GetAllOnlineNode.next"}
midWrite == {"node.OfflineCount"}

\* C40: every statement that reads or writes the in-memory configuration is
\* executed by a goroutine that holds clusterconfigLock, and no goroutine is
\* between the reads of a call while another is between the writes of one.
C40_ConfigUnderLock ==
    /\ [][\A t \in CfgCallers :
            (tpc'[t] # tpc[t] /\ tpc[t] \in readsConfig \cup writesConfig)
                => clusterconfigLock = t]_vars
    /\ [](\A t, u \in CfgCallers :
            ~(t # u /\ tpc[t] \in midWrite /\ tpc[u] \in midRead))

(***************************************************************************)
(* Propose on a node that is not the channel leader                         *)
(* (channelGroupManager.proposeMessages): the logs are forwarded to the    *)
(* leader named by the local placement, and the leader's answer returned.  *)
(***************************************************************************)
\* a call of proposeMessages that has not started
idleCall == [state |-> "idle", err |-> FALSE, items |-> 0, tries |-> 0]

ProposeInit ==
    /\ pcall = [p \in Payloads |-> idleCall]
    /\ reqs = {}
    /\ resps = {}
    /\ leaderStore = <<>>
    /\ placementOld = FALSE

\* number of entries of the leader's storage that hold payload p
stored(p) == Cardinality({i \in 1..Len(leaderStore) : leaderStore[i] = p})

\* proposeMessages on the proxy node, up to the forward: the channel is
\* fetched, it is not the leader, the request goes to the leader of the local
\* placement; a call that returned an error can be made again
ProposeForward(p) ==
    /\ \/ pcall[p].state = "idle"
       \/ pcall[p].state = "done" /\ pcall[p].err
    /\ pcall[p].tries < MaxTries
    /\ pcall' = [pcall EXCEPT ![p] = [state |-> "waiting", err |-> FALSE, items |-> 0,
                                      tries |-> @.tries + 1]]
    /\ reqs' = reqs \cup {[payload |-> p, try |-> pcall[p].tries + 1, old |-> placementOld]}
    /\ UNCHANGED <<resps, leaderStore, placementOld>>
    /\ UNCHANGED nonProposeVars

\* the node the request reaches handles it: the leader appends the logs and
\* answers with their items; a node that is no longer the leader of the
\* channel answers ClusterConfigOld and appends nothing
HandlePropose ==
    /\ \E r \in reqs :
          /\ reqs' = reqs \ {r}
          /\ IF r.old
             THEN /\ resps' = resps \cup {[payload |-> r.payload, try |-> r.try,
                                           ClusterConfigOld |-> TRUE, MessageItems |-> 0]}
                  /\ UNCHANGED leaderStore
             ELSE /\ resps' = resps \cup {[payload |-> r.payload, try |-> r.try,
                                           ClusterConfigOld |-> FALSE, MessageItems |-> 1]}
                  /\ leaderStore' = Append(leaderStore, r.payload)
    /\ UNCHANGED <<pcall, placementOld>>
    /\ UNCHANGED nonProposeVars

\* proposeMessages after requestChannelProposeMessage returned a response:
\* on ClusterConfigOld the local placement is deleted; resp.MessageItems is
\* returned with a nil error either way
ProposeReturn(p) ==
    /\ pcall[p].state = "waiting"
    /\ \E r \in resps :
          /\ r.payload = p /\ r.try = pcall[p].tries
          /\ resps' = resps \ {r}
          /\ pcall' = [pcall EXCEPT ![p] = [@ EXCEPT !.state = "done", !.err = FALSE,
                                                     !.items = r.MessageItems]]
          /\ placementOld' = IF r.ClusterConfigOld THEN FALSE ELSE placementOld
    /\ UNCHANGED <<reqs, leaderStore>>
    /\ UNCHANGED nonProposeVars

\* requestChannelProposeMessage gives up after ReqTimeout: proposeMessages
\* returns the error; the request or its answer may still be on the way
ProposeTimeout(p) ==
    /\ pcall[p].state = "waiting"
    /\ pcall' = [pcall EXCEPT ![p] = [@ EXCEPT !.state = "done", !.err = TRUE]]
    /\ UNCHANGED <<reqs, resps, leaderStore, placementOld>>
    /\ UNCHANGED nonProposeVars

\* the channel gets another leader: the placement held by the proxy is old
PlacementBecomesOld ==
    /\ ~placementOld
    /\ placementOld' = TRUE
    /\ UNCHANGED <<pcall, reqs, resps, leaderStore>>
    /\ UNCHANGED nonProposeVars

ProposeNext ==
    \/ \E p \in Payloads : ProposeForward(p)
    \/ HandlePropose
    \/ \E p \in Payloads : ProposeReturn(p)
    \/ \E p \in Payloads : ProposeTimeout(p)
    \/ PlacementBecomesOld

\* C10: a call of proposeMessages on the proxy that returned without error
\* left exactly one entry with its payload in the leader's storage.
C10_ForwardAppendsExactlyOnce ==
    \A p \in Payloads :
        (pcall[p].state = "done" /\ ~pcall[p].err) => stored(p) = 1

\* C11: when the proxy takes an answer with ClusterConfigOld for a call, the
\* call is sent again under the refreshed placement instead of returning.
C11_ConfigOldIsRetried ==
    [][\A p \in Payloads :
          (\E r \in resps \ resps' : r.payload = p /\ r.ClusterConfigOld)
              => /\ ~placementOld'
                 /\ pcall'[p].state = "waiting"
                 /\ \E q \in reqs' : q.payload = p /\ ~q.old]_vars

(***************************************************************************)
(* The election of a channel leader as a function of what the slot leader  *)
(* finds: the stored placement, the nodes that are online, the last log   *)
(* index of every replica and the replicas whose answer arrives.           *)
(***************************************************************************)
\* longest log of a replica at the time of an election
MaxPollLog == 2
\* highest ChannelMaxReplicaCount a placement is synthesized for
MaxReplicaCount == 3

\* no election has run
NoElection == [by |-> None, slot |-> None, pre |-> NoPlacement, online |-> {},
               need |-> FALSE, resp |-> {}, ret |-> NoPlacement,
               saveFailed |-> FALSE, mem |-> NoPlacement]

\* no placement has been synthesized
NoCreate == [self |-> None, count |-> 0, nodes |-> <<>>, LeaderId |-> None,
             replicaIDs |-> <<>>]

ElectInit ==
    /\ singleNode = FALSE
    /\ channelSlotLeader = 1
    /\ elected = NoElection
    /\ created = NoCreate

\* a stored log of k entries
logOfLen(k) == [i \in 1..k |-> [Index |-> i, Term |-> 1, Data |-> i]]

\* the placements an election can find: the replicas are the nodes the
\* cluster had when the channel was created, at most ChannelMaxReplicaCount
storedPlacements ==
    {[LeaderId |-> l, Term |-> t, Replicas |-> rs] :
        l \in ShardNodes \cup {None}, t \in 0..(MaxShardTerm - 1),
        rs \in (SUBSET ShardNodes) \ {{}}}

\* the states an election can start from; a single node is node 1 alone
ElectionInputs ==
    /\ singleNode \in BOOLEAN
    /\ channelSlotLeader \in ShardNodes
    /\ singleNode => channelSlotLeader = 1
    /\ created = NoCreate
    /\ elected = NoElection
    /\ online \in [ShardNodes -> BOOLEAN]
    /\ placement \in storedPlacements
    /\ placement.LeaderId \in placement.Replicas \cup {None}
    /\ Cardinality(placement.Replicas) <= ChannelMaxReplicaCount
    /\ singleNode => (placement.Replicas = {1} /\ \A n \in ShardNodes : online[n] <=> n = 1)
    /\ slog \in [ShardNodes -> {logOfLen(k) : k \in 0..MaxPollLog}]
    /\ \A n \in ShardNodes : (singleNode /\ n # 1) => slog[n] = <<>>
    /\ cache = [n \in ShardNodes |-> NoPlacement]
    /\ fetch = [by |-> None, cached |-> FALSE, pre |-> NoPlacement, leaderOnline |-> FALSE,
                post |-> NoPlacement, ret |-> NoPlacement,
                prevBy |-> None, prev |-> NoPlacement]
    /\ view = [n \in ShardNodes |->
                  [role |-> "Unknown", leader |-> None, term |-> 0, status |-> "Ready"]]
    /\ committedIndex = [n \in ShardNodes |-> 0]
    /\ applied = [n \in ShardNodes |-> <<>>]
    /\ lastSyncInfoMap = [l \in ShardNodes |-> [f \in ShardNodes |-> 0]]
    /\ proposed = 0
    /\ events = 0

\* channelGroupManager.electionIfNeed on the online node self for a channel
\* whose clusterConfig is the stored placement: the placement is saved when a
\* leader was appointed, and the save can fail
ElectionIfNeed(self) ==
    /\ online[self]
    /\ \E resp \in requestChannelLastLogInfos(placement, self), saveOk \in BOOLEAN :
          \E newLeaderID \in channelLeaderIDByLogInfo(logInfoMap(resp), self) :
             LET ret == electionIfNeed(placement, self, channelSlotLeader, resp, newLeaderID)
                 appointed == ret \notin {FetchError, ElectionPanic} /\ ret # placement
                 mem == IF appointed /\ saveOk THEN ret
                        ELSE electionInMemory(placement, self, channelSlotLeader, resp, newLeaderID)
             IN  /\ ret.Term <= MaxShardTerm
                 /\ placement' = IF appointed /\ saveOk THEN ret ELSE placement
                 /\ elected' = [by |-> self, slot |-> channelSlotLeader, pre |-> placement,
                                online |-> {n \in ShardNodes : online[n]},
                                need |-> needElection(placement, self, channelSlotLeader),
                                resp |-> resp,
                                ret |-> IF appointed /\ ~saveOk THEN FetchError ELSE ret,
                                saveFailed |-> appointed /\ ~saveOk,
                                mem |-> mem]
    /\ UNCHANGED <<online, cache, fetch, view, slog, committedIndex, applied,
                   lastSyncInfoMap, proposed, events, singleNode, channelSlotLeader,
                   created>>
    /\ UNCHANGED nonShardElectVars

ElectionNext == \E self \in ShardNodes : ElectionIfNeed(self)

\* the orders in which rand.Shuffle can leave a set of allow-vote nodes
shuffles ==
    {q \in UNION {[1..k -> ShardNodes] : k \in 0..Cardinality(ShardNodes)} :
        \A i, j \in 1..Len(q) : q[i] = q[j] => i = j}

\* createChannelClusterInfo on the slot leader self for a channel that has no
\* placement, with ChannelMaxReplicaCount = count and the allow-vote nodes
\* shuffled into newOnlineNodes
CreateChannelClusterInfo(self, count, newOnlineNodes) ==
    /\ created' = [self |-> self, count |-> count, nodes |-> newOnlineNodes,
                   LeaderId |-> None,
                   replicaIDs |-> createReplicaIDs(self, newOnlineNodes, count)]
    /\ UNCHANGED <<shardVars, singleNode, channelSlotLeader, elected>>
    /\ UNCHANGED nonShardElectVars

CreateNext ==
    \E self \in ShardNodes, count \in 1..MaxReplicaCount, newOnlineNodes \in shuffles :
        CreateChannelClusterInfo(self, count, newOnlineNodes)

\* C22: a placement synthesized for a channel that has none has leaderId 0
\* and a replica list that starts with the slot leader, goes on with distinct
\* other allow-vote nodes, holds no duplicate and has at most replicaCount
\* entries, for every replicaCount >= 1 and every set of allow-vote nodes
C22_SynthesizedPlacement ==
    LET ids == created.replicaIDs
    IN  created.self # None =>
            /\ created.LeaderId = None
            /\ Len(ids) >= 1 /\ ids[1] = created.self
            /\ \A i \in 2..Len(ids) :
                  ids[i] # created.self /\ \E k \in 1..Len(created.nodes) : created.nodes[k] = ids[i]
            /\ \A i, j \in 1..Len(ids) : ids[i] = ids[j] => i = j
            /\ Len(ids) <= created.count

\* C21: needElection returns true if and only if the node is the leader of
\* the channel's slot and the placement's leader is 0 or an offline node; on a
\* node that is not the slot leader electionIfNeed appoints nobody
C21_NeedElectionIff ==
    elected.by # None =>
        /\ elected.need <=>
              (/\ elected.slot = elected.by
               /\ (elected.pre.LeaderId = None \/ elected.pre.LeaderId \notin elected.online))
        /\ (elected.slot # elected.by => (elected.ret = elected.pre /\ placement = elected.pre))

\* a node that does not lead the slot found the channel's leader offline
C21_Witness ==
    /\ elected.by # None
    /\ elected.slot # elected.by
    /\ elected.pre.LeaderId # None /\ elected.pre.LeaderId \notin elected.online
    /\ Cardinality(elected.pre.Replicas \cap elected.online) >= 2
    /\ ~elected.need
    /\ placement = elected.pre

\* C23: if electionIfNeed returns an error (too few online replicas, too few
\* answers, no leader found, or the save of the placement fails) the channel's
\* in-memory placement and the channel's leaderId are as before the call
C23_ErrorLeavesPlacement ==
    (elected.by # None /\ elected.ret = FetchError) =>
        /\ elected.mem.LeaderId = elected.pre.LeaderId
        /\ elected.mem.Term = elected.pre.Term
        /\ placement = elected.pre

\* C19: a channel-leader election appoints a leader only if at least
\* quorum = ChannelMaxReplicaCount/2 + 1 replicas (1 on a single node) are
\* online and returned their last log index; with fewer, electionIfNeed
\* returns an error and appoints nobody
C19_ElectionNeedsQuorum ==
    LET q == IF singleNode THEN 1 ELSE (ChannelMaxReplicaCount \div 2) + 1
        answered == {n \in elected.resp : n \in elected.pre.Replicas /\ n \in elected.online}
        needed == /\ elected.slot = elected.by
                  /\ (elected.pre.LeaderId = None \/ elected.pre.LeaderId \notin elected.online)
    IN  elected.by # None =>
            /\ (placement # elected.pre => (needed /\ Cardinality(answered) >= q))
            /\ ((needed /\ Cardinality(answered) < q) =>
                    (elected.ret = FetchError /\ placement = elected.pre))

\* enough replicas are online, one answer short of the quorum arrived and the
\* election returned an error
C19_Witness ==
    /\ elected.by # None
    /\ elected.slot = elected.by
    /\ ~singleNode
    /\ elected.pre.LeaderId # None /\ elected.pre.LeaderId \notin elected.online
    /\ Cardinality(elected.pre.Replicas \cap elected.online) >= 2
    /\ Cardinality(elected.resp) = 1
    /\ elected.ret = FetchError
    /\ placement = elected.pre

\* C20: an election that was needed and got a quorum of answers appoints a
\* replica of the channel that answered and whose last log index is the
\* highest among the answers, the electing node itself when its index is that
\* high, and raises the placement term by exactly 1, whichever replicas answered
C20_ElectionAppointsBestRespondent ==
    LET q == IF singleNode THEN 1 ELSE (ChannelMaxReplicaCount \div 2) + 1
        needed == /\ elected.slot = elected.by
                  /\ (elected.pre.LeaderId = None \/ elected.pre.LeaderId \notin elected.online)
        top == \A n \in elected.resp : Len(slog[n]) <= Len(slog[elected.ret.LeaderId])
        selfTop == /\ elected.by \in elected.resp
                   /\ \A n \in elected.resp : Len(slog[n]) <= Len(slog[elected.by])
    IN  (elected.by # None /\ needed /\ Cardinality(elected.resp) >= q /\ ~elected.saveFailed) =>
            /\ elected.ret.LeaderId \in elected.resp
            /\ elected.ret.LeaderId \in elected.pre.Replicas
            /\ top
            /\ (selfTop => elected.ret.LeaderId = elected.by)
            /\ elected.ret.Term = elected.pre.Term + 1
            /\ placement = elected.ret

(***************************************************************************)
(* Concurrent loadOrCreateChannel calls for one channel on one node: the   *)
(* callers run in their own goroutines and meet at the channel group and   *)
(* at the key lock of the channel.                                         *)
(***************************************************************************)
FetchCallers == {1, 2, 3}
\* calls one caller makes
MaxFetches == 2

RaceInit ==
    /\ fpc = [t \in FetchCallers |-> "idle"]
    /\ fpath = [t \in FetchCallers |-> "none"]
    /\ fobj = [t \in FetchCallers |-> None]
    /\ fret = [t \in FetchCallers |-> None]
    /\ fcalls = [t \in FetchCallers |-> 0]
    /\ channelKeyLock = None
    /\ groupChannel = None
    /\ groupAdds = <<>>
    /\ objects = 0
    /\ hasLeader = FALSE
    /\ appointments = 0

\* loadOrCreateChannel picks the branch by slot.Leader, and the branch looks
\* the channel up in the channel group before it takes the key lock
FetchLookup(t) ==
    /\ fpc[t] \in {"idle", "done", "failed"}
    /\ fcalls[t] < MaxFetches
    /\ fcalls' = [fcalls EXCEPT ![t] = @ + 1]
    /\ fobj' = [fobj EXCEPT ![t] = None]
    /\ \E path \in {"slotLeader", "others"} : fpath' = [fpath EXCEPT ![t] = path]
    /\ IF groupChannel # None
       THEN fpc' = [fpc EXCEPT ![t] = "done"] /\ fret' = [fret EXCEPT ![t] = groupChannel]
       ELSE fpc' = [fpc EXCEPT ![t] = "lock"] /\ fret' = [fret EXCEPT ![t] = None]
    /\ UNCHANGED <<channelKeyLock, groupChannel, groupAdds, objects, hasLeader, appointments>>
    /\ UNCHANGED nonRaceVars

\* c.channelKeyLock.Lock(shardNo)
FetchLock(t) ==
    /\ fpc[t] = "lock"
    /\ channelKeyLock = None
    /\ channelKeyLock' = t
    /\ fpc' = [fpc EXCEPT ![t] = "load"]
    /\ UNCHANGED <<fpath, fobj, fret, fcalls, groupChannel, groupAdds, objects, hasLeader,
                   appointments>>
    /\ UNCHANGED nonRaceVars

\* under the lock: the placement is read (or synthesized, or asked from the
\* slot leader) and a channel object is made from it; a storage or transport
\* error ends the call
FetchLoad(t) ==
    /\ fpc[t] = "load"
    /\ \/ /\ objects' = objects + 1
          /\ fobj' = [fobj EXCEPT ![t] = objects + 1]
          /\ fpc' = [fpc EXCEPT ![t] = IF fpath[t] = "slotLeader" THEN "elect" ELSE "add"]
          /\ UNCHANGED channelKeyLock
       \/ /\ fpc' = [fpc EXCEPT ![t] = "failed"]
          /\ channelKeyLock' = None
          /\ UNCHANGED <<objects, fobj>>
    /\ UNCHANGED <<fpath, fret, fcalls, groupChannel, groupAdds, hasLeader, appointments>>
    /\ UNCHANGED nonRaceVars

\* under the lock on the slot leader: electionIfNeed; an election is needed
\* while the placement names no leader, and it can fail
FetchElect(t) ==
    /\ fpc[t] = "elect"
    /\ IF hasLeader
       THEN /\ fpc' = [fpc EXCEPT ![t] = "add"]
            /\ UNCHANGED <<hasLeader, appointments, channelKeyLock>>
       ELSE \/ /\ hasLeader' = TRUE
               /\ appointments' = appointments + 1
               /\ fpc' = [fpc EXCEPT ![t] = "add"]
               /\ UNCHANGED channelKeyLock
            \/ /\ fpc' = [fpc EXCEPT ![t] = "failed"]
               /\ channelKeyLock' = None
               /\ UNCHANGED <<hasLeader, appointments>>
    /\ UNCHANGED <<fpath, fobj, fret, fcalls, groupChannel, groupAdds, objects>>
    /\ UNCHANGED nonRaceVars

\* under the lock: the channel object is added to the channel group and
\* returned, and the deferred Unlock runs
FetchAdd(t) ==
    /\ fpc[t] = "add"
    /\ groupChannel' = fobj[t]
    /\ groupAdds' = Append(groupAdds, fobj[t])
    /\ fret' = [fret EXCEPT ![t] = fobj[t]]
    /\ fpc' = [fpc EXCEPT ![t] = "done"]
    /\ channelKeyLock' = None
    /\ UNCHANGED <<fpath, fobj, fcalls, objects, hasLeader, appointments>>
    /\ UNCHANGED nonRaceVars

RaceNext ==
    \E t \in FetchCallers :
        \/ FetchLookup(t)
        \/ FetchLock(t)
        \/ FetchLoad(t)
        \/ FetchElect(t)
        \/ FetchAdd(t)

\* C24: for every interleaving of concurrent fetchChannel calls for one
\* channel on one node, at most one channel object is registered in the
\* channel group and at most one election appoints a leader for it, and every
\* caller that gets a channel gets the object that was registered first
C24_OneChannelObject ==
    /\ Len(groupAdds) <= 1
    /\ appointments <= 1
    /\ \A t \in FetchCallers :
          (fpc[t] = "done" /\ fret[t] # None) => fret[t] = groupAdds[1]

(***************************************************************************)
(* Receiver tag of a channel (channel.makeReceiverTag): the subscribers of *)
(* the channel are grouped by the node that leads each subscriber's slot.  *)
(***************************************************************************)
Uids == {1, 2, 3}
TagNodes == {1, 2}
MaxSubscribers == 3

\* no tag built yet
NoTag == [built |-> FALSE, subscribers |-> <<>>, slotLeader |-> [u \in Uids |-> 1],
          nodeUserList |-> <<>>]

TagInit ==
    /\ subscribers = <<>>
    /\ slotLeader = [u \in Uids |-> 1]
    /\ receiverTag = NoTag

\* one pass of the grouping loop: the subscriber joins the first group of its
\* node, or a new group for that node is appended
addToNodeUserList_alwaysNewGroup(nodeUserList, nodeId, uid) ==
    Append(nodeUserList, [nodeId |-> nodeId, uids |-> <<uid>>])
addToNodeUserList(nodeUserList, nodeId, uid) ==
    IF \E i \in 1..Len(nodeUserList) : nodeUserList[i].nodeId = nodeId
    THEN LET i == CHOOSE k \in 1..Len(nodeUserList) :
                      /\ nodeUserList[k].nodeId = nodeId
                      /\ \A j \in 1..(k - 1) : nodeUserList[j].nodeId # nodeId
         IN  [nodeUserList EXCEPT ![i].uids = Append(@, uid)]
    ELSE Append(nodeUserList, [nodeId |-> nodeId, uids |-> <<uid>>])

\* the grouping loop over the first k subscribers
RECURSIVE groupByNode(_, _, _)
groupByNode(subs, leaderOf, k) ==
    IF k = 0 THEN <<>>
    ELSE addToNodeUserList(groupByNode(subs, leaderOf, k - 1), leaderOf[subs[k]], subs[k])

\* a user subscribes to the channel
Subscribe(u) ==
    /\ Len(subscribers) < MaxSubscribers
    /\ subscribers' = Append(subscribers, u)
    /\ UNCHANGED <<slotLeader, receiverTag>>
    /\ UNCHANGED nonTagVars

\* the slot of user u gets another leader
SlotLeaderChange(u, n) ==
    /\ slotLeader[u] # n
    /\ slotLeader' = [slotLeader EXCEPT ![u] = n]
    /\ UNCHANGED <<subscribers, receiverTag>>
    /\ UNCHANGED nonTagVars

\* channel.makeReceiverTag: the subscribers are grouped by node, the old tag
\* is released and the new one takes its place
MakeReceiverTag ==
    /\ receiverTag' = [built |-> TRUE, subscribers |-> subscribers, slotLeader |-> slotLeader,
                       nodeUserList |-> groupByNode(subscribers, slotLeader, Len(subscribers))]
    /\ UNCHANGED <<subscribers, slotLeader>>
    /\ UNCHANGED nonTagVars

TagNext ==
    \/ \E u \in Uids : Subscribe(u)
    \/ \E u \in Uids, n \in TagNodes : SlotLeaderChange(u, n)
    \/ MakeReceiverTag

\* the groups of the tag that hold uid
groupsOf(uid) ==
    {g \in 1..Len(receiverTag.nodeUserList) :
        \E j \in 1..Len(receiverTag.nodeUserList[g].uids) :
            receiverTag.nodeUserList[g].uids[j] = uid}

\* C13: the tag partitions the subscriber list by owning node: every
\* subscriber is in exactly one group, the group of the node that leads its
\* slot; the groups hold nothing but the subscribers, each entry of the list
\* once; no two groups have the same nodeId and no group is empty.
C13_TagPartitionsSubscribers ==
    LET L == receiverTag.nodeUserList
        S == receiverTag.subscribers
    IN  receiverTag.built =>
          /\ \A i \in 1..Len(S) :
                /\ Cardinality(groupsOf(S[i])) = 1
                /\ \A g \in groupsOf(S[i]) : L[g].nodeId = receiverTag.slotLeader[S[i]]
          /\ \A g \in 1..Len(L) :
                /\ Len(L[g].uids) > 0
                /\ \A j \in 1..Len(L[g].uids) : \E i \in 1..Len(S) : S[i] = L[g].uids[j]
                /\ \A h \in 1..Len(L) : L[g].nodeId = L[h].nodeId => g = h
          /\ \A u \in Uids :
                Cardinality({i \in 1..Len(S) : S[i] = u})
                    = Cardinality({p \in UNION {{<<g, j>> : j \in 1..Len(L[g].uids)} : g \in 1..Len(L)} :
                                      L[p[1]].uids[p[2]] = u})

\* a tag of two groups, one of them with two subscribers
C13_Witness ==
    /\ receiverTag.built
    /\ Len(receiverTag.nodeUserList) = 2
    /\ Len(receiverTag.nodeUserList[1].uids) = 1
    /\ Len(receiverTag.nodeUserList[2].uids) = 2
    /\ receiverTag.nodeUserList[2].uids[1] # receiverTag.nodeUserList[2].uids[2]

(***************************************************************************)
(* The life of the channel's receiver tag.  makeReceiverTag runs on the     *)
(* goroutine that needs the tag and holds c.mu; resetIndex runs on the lane *)
(* (becomeLeader, becomeProxy) and does not take c.mu.  receiverTagKey is   *)
(* an atomic.String: each Load and each Store is one step.  Keys are the    *)
(* numbers 1, 2, ... in the order GenUUID makes them; 0 is the empty key.   *)
(***************************************************************************)
MaxKeys == 3
MaxTagResets == 2

KeyInit ==
    /\ receiverTagKey = 0
    /\ tags = {}
    /\ keys = 0
    /\ mpc = "idle"
    /\ mnew = 0
    /\ rpc = "idle"
    /\ tagResets = 0

\* tagManager.releaseReceiverTagNow(key)
releaseReceiverTagNow(key) == tags \ {key}

\* makeReceiverTag is entered: c.mu is taken, the subscribers are asked for
MakeTagBegin ==
    /\ mpc = "idle"
    /\ keys < MaxKeys
    /\ mpc' = "subscribers"
    /\ UNCHANGED <<receiverTagKey, tags, keys, mnew, rpc, tagResets>>
    /\ UNCHANGED nonKeyVars

\* requestSubscribers or SlotLeaderOfChannel fails: return nil, err
MakeTagFail ==
    /\ mpc = "subscribers"
    /\ mpc' = "idle"
    /\ UNCHANGED <<receiverTagKey, tags, keys, mnew, rpc, tagResets>>
    /\ UNCHANGED nonKeyVars

\* the subscribers are grouped; if c.receiverTagKey.Load() != ""
MakeTagTest ==
    /\ mpc = "subscribers"
    /\ mpc' = IF receiverTagKey # 0 THEN "release" ELSE "add"
    /\ UNCHANGED <<receiverTagKey, tags, keys, mnew, rpc, tagResets>>
    /\ UNCHANGED nonKeyVars

\* releaseReceiverTagNow(c.receiverTagKey.Load())
MakeTagRelease ==
    /\ mpc = "release"
    /\ tags' = releaseReceiverTagNow(receiverTagKey)
    /\ mpc' = "add"
    /\ UNCHANGED <<receiverTagKey, keys, mnew, rpc, tagResets>>
    /\ UNCHANGED nonKeyVars

\* receiverTagKey := GenUUID(); addOrUpdateReceiverTag(receiverTagKey, ...)
MakeTagAdd ==
    /\ mpc = "add"
    /\ keys' = keys + 1
    /\ mnew' = keys + 1
    /\ tags' = tags \cup {keys + 1}
    /\ mpc' = "store"
    /\ UNCHANGED <<receiverTagKey, rpc, tagResets>>
    /\ UNCHANGED nonKeyVars

\* c.receiverTagKey.Store(receiverTagKey); return; c.mu is released
MakeTagStore ==
    /\ mpc = "store"
    /\ receiverTagKey' = mnew
    /\ mnew' = 0
    /\ mpc' = "idle"
    /\ UNCHANGED <<tags, keys, rpc, tagResets>>
    /\ UNCHANGED nonKeyVars

\* resetIndex: if c.receiverTagKey.Load() != ""
ResetTagTest ==
    /\ rpc = "idle"
    /\ tagResets < MaxTagResets
    /\ tagResets' = tagResets + 1
    /\ rpc' = IF receiverTagKey # 0 THEN "release" ELSE "idle"
    /\ UNCHANGED <<receiverTagKey, tags, keys, mpc, mnew>>
    /\ UNCHANGED nonKeyVars

\* resetIndex: releaseReceiverTagNow(c.receiverTagKey.Load())
ResetTagRelease ==
    /\ rpc = "release"
    /\ tags' = releaseReceiverTagNow(receiverTagKey)
    /\ rpc' = "store"
    /\ UNCHANGED <<receiverTagKey, keys, mpc, mnew, tagResets>>
    /\ UNCHANGED nonKeyVars

\* resetIndex: c.receiverTagKey.Store("")
ResetTagStore ==
    /\ rpc = "store"
    /\ receiverTagKey' = 0
    /\ rpc' = "idle"
    /\ UNCHANGED <<tags, keys, mpc, mnew, tagResets>>
    /\ UNCHANGED nonKeyVars

KeyNext ==
    \/ MakeTagBegin
    \/ MakeTagFail
    \/ MakeTagTest
    \/ MakeTagRelease
    \/ MakeTagAdd
    \/ MakeTagStore
    \/ ResetTagTest
    \/ ResetTagRelease
    \/ ResetTagStore

\* C31: whenever neither makeReceiverTag nor resetIndex is under way the
\* channel has at most one unreleased receiver tag, and receiverTagKey is
\* empty or the key of that tag
C31_OneReceiverTag ==
    (mpc = "idle" /\ rpc = "idle") =>
        /\ Cardinality(tags) <= 1
        /\ receiverTagKey = 0 \/ tags = {receiverTagKey}

(***************************************************************************)
(* The lane of the channel reactor (channelReactorSub): callers hand step  *)
(* requests to the lane through stepChannelC and, in stepWait, wait for    *)
(* the result on a completion channel of their own.                        *)
(***************************************************************************)
Callers == {1, 2, 3}
\* capacity of stepChannelC (1024 in newChannelReactorSub)
StepQueueCap == 1
MaxCalls == 2

ReactorInit ==
    /\ stopped = FALSE
    /\ shouldStop = FALSE
    /\ loopExited = FALSE
    /\ stepChannelC = <<>>
    /\ waitC = [c \in Callers |-> FALSE]
    /\ wpc = [c \in Callers |-> "idle"]
    /\ wresult = [c \in Callers |-> "none"]
    /\ wcalls = [c \in Callers |-> 0]

\* a caller enters stepWait: waitC is made, the first select is reached
StepWaitCall(c) ==
    /\ wpc[c] \in {"idle", "done"}
    /\ wcalls[c] < MaxCalls
    /\ wcalls' = [wcalls EXCEPT ![c] = @ + 1]
    /\ wpc' = [wpc EXCEPT ![c] = "enqueue"]
    /\ waitC' = [waitC EXCEPT ![c] = FALSE]
    /\ wresult' = [wresult EXCEPT ![c] = "none"]
    /\ UNCHANGED <<stopped, shouldStop, loopExited, stepChannelC>>
    /\ UNCHANGED nonReactorVars

\* stepWait, first select: the request enters stepChannelC when it has room
StepWaitEnqueue(c) ==
    /\ wpc[c] = "enqueue"
    /\ Len(stepChannelC) < StepQueueCap
    /\ stepChannelC' = Append(stepChannelC, [caller |-> c, call |-> wcalls[c]])
    /\ wpc' = [wpc EXCEPT ![c] = "wait"]
    /\ UNCHANGED <<stopped, shouldStop, loopExited, waitC, wresult, wcalls>>
    /\ UNCHANGED nonReactorVars

\* stepWait, first select: ShouldStop is closed, ErrReactorStopped is returned
StepWaitEnqueueStopped_noStopCase(c) ==
    /\ FALSE
    /\ UNCHANGED vars
StepWaitEnqueueStopped(c) ==
    /\ wpc[c] = "enqueue"
    /\ shouldStop
    /\ wpc' = [wpc EXCEPT ![c] = "done"]
    /\ wresult' = [wresult EXCEPT ![c] = "ErrReactorStopped"]
    /\ UNCHANGED <<stopped, shouldStop, loopExited, stepChannelC, waitC, wcalls>>
    /\ UNCHANGED nonReactorVars

\* stepWait, second select: the step's result has arrived on waitC
StepWaitResult(c) ==
    /\ wpc[c] = "wait"
    /\ waitC[c]
    /\ wpc' = [wpc EXCEPT ![c] = "done"]
    /\ wresult' = [wresult EXCEPT ![c] = "stepResult"]
    /\ waitC' = [waitC EXCEPT ![c] = FALSE]
    /\ UNCHANGED <<stopped, shouldStop, loopExited, stepChannelC, wcalls>>
    /\ UNCHANGED nonReactorVars

\* stepWait, second select: the 5 s of timeoutCtx are over
StepWaitTimeout(c) ==
    /\ wpc[c] = "wait"
    /\ wpc' = [wpc EXCEPT ![c] = "done"]
    /\ wresult' = [wresult EXCEPT ![c] = "timeout"]
    /\ UNCHANGED <<stopped, shouldStop, loopExited, stepChannelC, waitC, wcalls>>
    /\ UNCHANGED nonReactorVars

\* stepWait, second select: ShouldStop is closed
StepWaitStopped(c) ==
    /\ wpc[c] = "wait"
    /\ shouldStop
    /\ wpc' = [wpc EXCEPT ![c] = "done"]
    /\ wresult' = [wresult EXCEPT ![c] = "ErrReactorStopped"]
    /\ UNCHANGED <<stopped, shouldStop, loopExited, stepChannelC, waitC, wcalls>>
    /\ UNCHANGED nonReactorVars

\* loop: a request is taken from stepChannelC, stepped, and its result put on
\* the request's waitC (of capacity 1); a result for a call that has returned
\* stays on a channel nobody reads
LoopStep ==
    /\ ~loopExited
    /\ Len(stepChannelC) > 0
    /\ LET req == Head(stepChannelC)
       IN  waitC' = IF wcalls[req.caller] = req.call /\ wpc[req.caller] = "wait"
                    THEN [waitC EXCEPT ![req.caller] = TRUE]
                    ELSE waitC
    /\ stepChannelC' = Tail(stepChannelC)
    /\ UNCHANGED <<stopped, shouldStop, loopExited, wpc, wresult, wcalls>>
    /\ UNCHANGED nonReactorVars

\* loop: the loop condition sees stopped, or the select sees ShouldStop
LoopExit ==
    /\ ~loopExited
    /\ stopped \/ shouldStop
    /\ loopExited' = TRUE
    /\ UNCHANGED <<stopped, shouldStop, stepChannelC, waitC, wpc, wresult, wcalls>>
    /\ UNCHANGED nonReactorVars

\* stop(): r.stopped.Store(true)
StopStore ==
    /\ ~stopped
    /\ stopped' = TRUE
    /\ UNCHANGED <<shouldStop, loopExited, stepChannelC, waitC, wpc, wresult, wcalls>>
    /\ UNCHANGED nonReactorVars

\* stop(): r.stopper.Stop() closes ShouldStop
StopperStop ==
    /\ stopped
    /\ ~shouldStop
    /\ shouldStop' = TRUE
    /\ UNCHANGED <<stopped, loopExited, stepChannelC, waitC, wpc, wresult, wcalls>>
    /\ UNCHANGED nonReactorVars

ReactorNext ==
    \/ \E c \in Callers : StepWaitCall(c)
    \/ \E c \in Callers : StepWaitEnqueue(c)
    \/ \E c \in Callers : StepWaitEnqueueStopped(c)
    \/ \E c \in Callers : StepWaitResult(c)
    \/ \E c \in Callers : StepWaitTimeout(c)
    \/ \E c \in Callers : StepWaitStopped(c)
    \/ LoopStep
    \/ LoopExit
    \/ StopStore
    \/ StopperStop

\* the goroutines keep running: a caller whose select has a ready case takes
\* one, the timer of a waiting caller fires, the loop takes a queued request
\* while it runs, and stop() goes on to close ShouldStop
ReactorFairness ==
    /\ \A c \in Callers :
          /\ WF_vars(StepWaitEnqueue(c))
          /\ WF_vars(StepWaitEnqueueStopped(c))
          /\ WF_vars(StepWaitResult(c) \/ StepWaitTimeout(c) \/ StepWaitStopped(c))
    /\ WF_vars(LoopStep)
    /\ WF_vars(LoopExit)
    /\ WF_vars(StopperStop)

\* C16: every stepWait call returns, with the step's result only if the lane
\* processed the request, with ErrReactorStopped only if the reactor was
\* stopped, or with the timeout error; once the reactor is stopped no caller
\* stays blocked, neither on the enqueue nor on the completion channel.
C16_StepWaitReturns ==
    /\ [](\A c \in Callers :
            /\ wpc[c] = "done" => wresult[c] \in {"stepResult", "ErrReactorStopped", "timeout"}
            /\ wresult[c] = "ErrReactorStopped" => shouldStop)
    /\ [][\A c \in Callers :
            (wresult'[c] = "stepResult" /\ wresult[c] # "stepResult") => waitC[c]]_vars
    /\ \A c \in Callers : (wpc[c] \in {"enqueue", "wait"}) ~> (wpc[c] = "done")
    /\ stopped ~> (\A c \in Callers : wpc[c] \notin {"enqueue", "wait"})

\* the reactor is stopped with the queue full; a caller that was blocked on
\* the enqueue and a caller that was waiting for its result have both
\* returned ErrReactorStopped
C16_Witness ==
    /\ shouldStop
    /\ Len(stepChannelC) = StepQueueCap
    /\ \E a, b \in Callers :
          /\ a # b
          /\ wpc[a] = "done" /\ wresult[a] = "ErrReactorStopped" /\ wcalls[a] = 1
          /\ wpc[b] = "done" /\ wresult[b] = "ErrReactorStopped" /\ wcalls[b] = 1
          /\ stepChannelC[1].caller = b

(***************************************************************************)
(* Specifications                                                          *)
(***************************************************************************)
Init ==
    /\ ChannelInit /\ ReplicaInit /\ ShardInit /\ ClusterConfigInit /\ ProposeInit
    /\ TagInit /\ ReactorInit /\ ElectInit /\ RaceInit /\ KeyInit /\ OptsInit /\ FileInit /\ LockInit

SpecChannel == Init /\ [][ChannelNext]_vars

SpecReplica == Init /\ [][ReplicaNext]_vars

SpecShard == Init /\ [][ShardNext]_vars
SpecShardLog == Init /\ [][ShardLogNext]_vars

SpecPlacement == Init /\ [][PlacementNext]_vars

SpecPlacementTerm == Init /\ [][PlacementTermNext]_vars

\* an election starts from any of its inputs; the rest is as constructed
ElectionInit ==
    /\ ChannelInit /\ ReplicaInit /\ ClusterConfigInit /\ ProposeInit
    /\ TagInit /\ ReactorInit /\ ElectionInputs /\ RaceInit /\ KeyInit /\ OptsInit /\ FileInit /\ LockInit

SpecElection == ElectionInit /\ [][ElectionNext]_vars

SpecCreate == Init /\ [][CreateNext]_vars

\* the logs the replicas hold when they are constructed
storedLogs ==
    [Nodes -> {[newReplicaLog EXCEPT !.log = [i \in 1..k |-> [Index |-> i, Term |-> 1]]] :
                  k \in 0..MaxStoredLog}]

\* replicas that hold a stored log when they are constructed, elections on or off
ReplicaOptsInit ==
    /\ ChannelInit /\ ShardInit /\ ClusterConfigInit /\ ProposeInit
    /\ TagInit /\ ReactorInit /\ ElectInit /\ RaceInit /\ KeyInit /\ FileInit /\ LockInit
    /\ electionOn \in BOOLEAN
    /\ replica = [n \in Nodes |-> NewReplica(n)]
    /\ net = {}
    /\ configs = <<[Version |-> 1, Term |-> 0, Leader |-> None,
                    Replicas |-> Nodes, Learners |-> {}]>>
    /\ rlog \in storedLogs

SpecLock == Init /\ [][LockNext]_vars

SpecRestart == Init /\ [][RestartNext]_vars

SpecReplicaOpts == ReplicaOptsInit /\ [][ReplicaNext]_vars

\* replicas that hold a stored log under a configuration that names node 1
\* leader, elections off
ReplicaSyncInit ==
    /\ ChannelInit /\ ShardInit /\ ClusterConfigInit /\ ProposeInit
    /\ TagInit /\ ReactorInit /\ ElectInit /\ RaceInit /\ KeyInit /\ FileInit /\ LockInit
    /\ electionOn = FALSE
    /\ replica = [n \in Nodes |-> NewReplica(n)]
    /\ net = {}
    /\ configs = <<[Version |-> 1, Term |-> 1, Leader |-> 1,
                    Replicas |-> Nodes, Learners |-> {}]>>
    /\ rlog \in storedLogs

SpecReplicaSync == ReplicaSyncInit /\ [][ReplicaSyncNext]_vars

SpecKey == Init /\ [][KeyNext]_vars

SpecRace == Init /\ [][RaceNext]_vars

SpecClusterConfig == Init /\ [][ClusterConfigNext]_vars

SpecPropose == Init /\ [][ProposeNext]_vars

SpecTag == Init /\ [][TagNext]_vars

SpecReactor == Init /\ [][ReactorNext]_vars /\ ReactorFairness

====
